---- MODULE Spec2Model ----
(***************************************************************************)
(* Verification model of the webserv conformance test harness:             *)
(*   - ComprehensiveTester / TestResult  (src/tester/comprehensive_tester) *)
(*   - PerformanceTester.concurrent_requests_test                          *)
(*   - StressTester.concurrent_requests_test                               *)
(*   - HTTPTester.send_request          (src/tests/scripts/test_webserv)   *)
(*   - the master runner main            (src/tester/run_all_tests)        *)
(*   - StressTester.sustained_load_test, mixed_workload_test and           *)
(*     connection_reuse_test            (src/tests/scripts/stress_test)    *)
(*   - PerformanceTester.keep_alive_test                                   *)
(* Bytes are one-token strings; a response is a sequence of such tokens.   *)
(***************************************************************************)
EXTENDS Integers, Sequences, FiniteSets, TLC

VARIABLES
    \* ---- ComprehensiveTester.run_all_tests -------------------------------
    catalog,        \* the cases the test_* methods issue, in call order
    pc,             \* position of the main thread
    phase,          \* "idle" | "precheck" | "running" | "summary" | "done"
    idx,            \* index in catalog of the next case to issue
    attempted,      \* indices of the cases that were started
    cause,          \* how the try block of run_all_tests was left
    exitCode,       \* value returned by run_all_tests (NoExit while running)
    preStatus,      \* status returned to the connectivity check
    fixture,        \* the peer every connection of the run reaches, NoServer
                    \* when each connection may meet a different peer
    \* ---- TestResult -------------------------------------------------------
    passed, failed, skipped, tests, category_stats,
    adding,         \* arguments of the add_pass/add_fail/add_skip in progress
    \* ---- send_request -----------------------------------------------------
    server,         \* behaviour of the peer for the connection in progress
    remaining,      \* bytes the peer has not delivered yet
    sock,           \* "none" | "created" | "connected" | "closed"
    response,       \* bytes accumulated by the recv loop
    bulk,           \* bytes of an endless stream accumulated after them
                    \* (counted, not stored)
    elapsed,        \* seconds spent blocked in recv() during the current call
    lookup,         \* header name passed to check_header and the value returned
    raised,         \* transport exceptions raised during the current call
    ret,            \* (status_code, headers, body) returned by send_request
    conns,          \* connections opened so far
    \* ---- PerformanceTester.concurrent_requests_test ------------------------
    futures,        \* per submitted request: "queued" | "running" | "done"
    fresult,        \* per request: the dict returned by send_single_request
    peer,           \* per request: how the server answers it
    wtask,          \* per pool worker: the request it runs, 0 when idle
    yielded,        \* futures as_completed has yielded, in yield order
    results,        \* the list the main thread appends to
    poolpc,         \* "submit" | "collect" | "analysed"
    \* ---- StressTester.concurrent_requests_test -----------------------------
    answers,        \* per (thread, request): outcome of make_request
    tpc,            \* per thread: position in worker()
    tdone,          \* per thread: requests completed
    treg,           \* per thread: value loaded by the += in progress
    tkind,          \* per thread: counter the += in progress targets
    lock,           \* holder of self.lock, or NoThread
    success_count, failure_count, timeout_count,
    mainpc,         \* "start" | "join" | "report"
    \* ---- run_all_tests.py main ---------------------------------------------
    master,         \* position, selected suites, results and return value
    \* ---- StressTester.sustained_load_test / mixed_workload_test -------------
    load,           \* the running flag, the workers and the totals read
    \* ---- StressTester.connection_reuse_test ---------------------------------
    reuse,          \* the local counters success and failures
    \* ---- PerformanceTester.keep_alive_test ----------------------------------
    keep            \* the connection's byte stream and the local counters

runRest    == <<catalog, fixture, phase, idx, attempted, cause, exitCode, preStatus>>
runVars    == <<pc, runRest>>
ledgerVars == <<passed, failed, skipped, tests, category_stats, adding>>
sockVars   == <<server, remaining, sock, response, bulk, elapsed, lookup, raised, ret, conns>>
perfVars   == <<futures, fresult, peer, wtask, yielded, results, poolpc>>
stressVars == <<answers, tpc, tdone, treg, tkind, lock,
                success_count, failure_count, timeout_count, mainpc>>
auxVars    == <<master, load, reuse, keep>>
vars == <<runVars, ledgerVars, sockVars, perfVars, stressVars, auxVars>>

-----------------------------------------------------------------------------
(* Bounds of the model *)
MaxCases    == 2      \* longest catalog explored
NumRequests == 3      \* num_requests of concurrent_requests_test (perf)
NumWorkers  == 2      \* max_workers of the ThreadPoolExecutor
NumThreads  == 2      \* num_threads of concurrent_requests_test (stress)
ReqPerThread == 2     \* requests_per_thread
MaxSplit    == 2      \* a recv delivers at most MaxSplit bytes, or all that is left

(* Program constants *)
TimeoutBudget   == 5         \* self.timeout = 5.0, handed to sock.settimeout()
ByteCeiling     == 1048576   \* 1024 * 1024, the 1MB limit of the recv loop
HeuristicMinLen == 100       \* len(response) > 100 of the no-body heuristic
RecvSize        == 8192      \* sock.recv(8192)
AbsentGot       == 0         \* add_fail(..., expected_status, 0, ...) when status is None
SkipCode        == 0         \* add_skip stores 0 for expected and got

None     == -1               \* Python None where an int is expected
Unset    == -2               \* a local that has not been assigned yet
NoExit   == -1
NoThread == 0

-----------------------------------------------------------------------------
(* Bytes and text *)
CR == "CR"
LF == "LF"
SP == " "
BAD == "xFF"                 \* a byte that is not valid UTF-8
SUP2 == "sup2"               \* U+00B2 SUPERSCRIPT TWO: str.isdigit() accepts it, int() does not
Digits == {"0","1","2","3","4","5","6","7","8","9"}
BLK == "SPx8192"             \* a run of spaces as long as one full recv(8192)
Whitespace == {SP, CR, LF, "TAB", BLK}

Min(S) == CHOOSE x \in S : \A y \in S : x <= y

\* bytes.find / str.find: index of the first occurrence of pat in s, 0 if none
IndexOf(s, pat) ==
    LET n == Len(s)
        m == Len(pat)
        hits == {i \in 1..(n - m + 1) : SubSeq(s, i, i + m - 1) = pat}
    IN IF hits = {} THEN 0 ELSE Min(hits)

\* pat in s
Contains(s, pat) == IndexOf(s, pat) # 0

\* s.startswith(pat)
StartsWith(s, pat) == Len(s) >= Len(pat) /\ SubSeq(s, 1, Len(pat)) = pat

\* s.split(pat, 1) when pat occurs in s
SplitOnce(s, pat) ==
    LET i == IndexOf(s, pat)
    IN <<SubSeq(s, 1, i - 1), SubSeq(s, i + Len(pat), Len(s))>>

\* s.split('\n')[0]
FirstLine(s) ==
    LET i == IndexOf(s, <<LF>>)
    IN IF i = 0 THEN s ELSE SubSeq(s, 1, i - 1)

\* bytes.decode('utf-8', errors='ignore'): undecodable bytes are dropped
Decode(b) == SelectSeq(b, LAMBDA c : c # BAD)

\* str.strip()
RECURSIVE LStrip(_)
LStrip(s) == IF s # <<>> /\ Head(s) \in Whitespace THEN LStrip(Tail(s)) ELSE s
RECURSIVE RStrip(_)
RStrip(s) == IF s # <<>> /\ s[Len(s)] \in Whitespace
             THEN RStrip(SubSeq(s, 1, Len(s) - 1)) ELSE s
Strip(s) == RStrip(LStrip(s))

\* the first whitespace-delimited token of s (s has no leading whitespace)
RECURSIVE TakeToken(_)
TakeToken(s) == IF s = <<>> \/ Head(s) \in Whitespace THEN <<>>
                ELSE <<Head(s)>> \o TakeToken(Tail(s))

\* str.split(): the whitespace-delimited tokens of s
RECURSIVE SplitWS(_)
SplitWS(s) ==
    LET t == LStrip(s)
    IN IF t = <<>> THEN <<>>
       ELSE LET tok == TakeToken(t)
            IN <<tok>> \o SplitWS(SubSeq(t, Len(tok) + 1, Len(t)))

\* str.isdigit(): true of decimal digits and of other digit characters
IsDigit(tok) == tok # <<>> /\ \A i \in 1..Len(tok) : tok[i] \in Digits \cup {SUP2}

\* int(tok) raises ValueError for a token str.isdigit() accepted
IntRaises(tok) == \E i \in 1..Len(tok) : tok[i] \notin Digits

DigitVal(c) == CASE c = "0" -> 0 [] c = "1" -> 1 [] c = "2" -> 2 [] c = "3" -> 3
                 [] c = "4" -> 4 [] c = "5" -> 5 [] c = "6" -> 6 [] c = "7" -> 7
                 [] c = "8" -> 8 [] c = "9" -> 9

\* int(tok) for a token of decimal digits
RECURSIVE ToInt(_)
ToInt(tok) == IF tok = <<>> THEN 0
              ELSE 10 * ToInt(SubSeq(tok, 1, Len(tok) - 1)) + DigitVal(tok[Len(tok)])

CRLFCRLF == <<CR, LF, CR, LF>>
LFLF     == <<LF, LF>>
HTTPSlash == <<"H", "T", "T", "P", "/">>
NoBodyCodes == {<<"2","0","4">>, <<"3","0","4">>, <<"4","0","4">>, <<"4","0","0">>}

-----------------------------------------------------------------------------
(* The peer: what the server under test does on one connection.            *)
(*   conn : outcome of connect()        send : outcome of sendall()        *)
(*   stream : the bytes it delivers     end : what follows the last byte   *)
Http11 == <<"H", "T", "T", "P", "/", "1", ".", "1">>
Pad(n) == [i \in 1..n |-> "x"]
StatusLine(code, reason) == Http11 \o <<SP>> \o code \o <<SP>> \o reason \o <<CR, LF>>

Resp200  == StatusLine(<<"2","0","0">>, <<"O","K">>) \o <<CR, LF, "B", "y", "e">>
Resp400  == StatusLine(<<"4","0","0">>, <<"B","R">>) \o <<CR, LF>>
Resp500  == StatusLine(<<"5","0","0">>, <<"E">>) \o <<CR, LF>>
Long404  == StatusLine(<<"4","0","4">>, <<"N","F">>) \o <<CR, LF>> \o Pad(82)
Partial  == StatusLine(<<"2","0","0">>, <<"O","K">>)
Junk     == <<"j", "u", BAD, "n", "k", LF, LF, "z">>

Peer(c, s, b, e) == [conn |-> c, send |-> s, stream |-> b, end |-> e]

Servers == {
    Peer("refused", "ok", <<>>, "close"),
    Peer("timeout", "ok", <<>>, "close"),
    Peer("ok", "error", <<>>, "close"),
    Peer("ok", "ok", Resp200, "silent"),
    Peer("ok", "ok", Resp400, "close"),
    Peer("ok", "ok", Resp500, "close"),
    Peer("ok", "ok", Long404, "silent"),
    Peer("ok", "ok", <<>>, "silent"),
    Peer("ok", "ok", Partial, "reset"),
    Peer("ok", "ok", Junk, "close") }

MaxStream == Len(Long404)  \* the longest stream a peer delivers
NoServer == Peer("none", "none", <<>>, "none")

\* str(e) of the exceptions the transport raises; locals of a call are
\* reset to their initial values when the call returns or is unwound
RefusedMsg == <<"Connection refused - is the server running?">>
ExcText(e) == CASE e = "timeout" -> <<"timed out">>
                [] e = "error"   -> <<"[Errno 32] Broken pipe">>
                [] e = "reset"   -> <<"[Errno 104] Connection reset by peer">>
                [] e = "value"   -> <<"invalid literal for int() with base 10">>
                [] e = "memory"  -> <<>>
NoHeaders == <<"<None>">>
NoRet == [status |-> None, headers |-> NoHeaders, body |-> <<>>]
NoLookup == [name |-> <<>>, value |-> NoHeaders]

-----------------------------------------------------------------------------
(* The catalog: the calls the test_* methods make, in order.               *)
Case(k, c, e, a, r) == [kind |-> k, category |-> c, expected |-> e, alts |-> a, reason |-> r]
\* the test_status calls of a run (lines 259-260 and 712-714) and the skip
\* sites (lines 466-470, 716-720)
TestCalls == {
    Case("test", "2XX Success", 200, {}, <<>>),
    Case("test", "Edge Cases", 400, {404, 200}, <<>>) }
SkipCall == Case("skip", "Edge Cases", 0, {},
                 <<"Raw control characters cause connection issues">>)

\* a catalog: up to MaxCases calls, each a skip or the run's test_status call
Catalogs == UNION {[1..n -> {t, SkipCall}] : n \in 0..MaxCases, t \in TestCalls}

\* attributes ComprehensiveTester.__init__ sets on the tester object
TesterAttrs == {"host", "port", "result", "timeout", "verbose"}
\* the attribute the skip sites look up on the tester
SkipLedgerAttr == "results"

NoAdd == [verdict |-> "NONE", name |-> 0, category |-> "", expected |-> 0,
          got |-> 0, message |-> <<>>]
Entry(v, n, c, e, g, m) == [verdict |-> v, name |-> n, category |-> c, expected |-> e,
                            got |-> g, message |-> m]
ZeroTally == [passed |-> 0, failed |-> 0, skipped |-> 0]
EmptyStats == [c \in {} |-> ZeroTally]

-----------------------------------------------------------------------------
(* Initial states *)
RunIdle ==
    /\ pc = "idle" /\ phase = "idle" /\ idx = 1 /\ attempted = {}
    /\ cause = "none" /\ exitCode = NoExit /\ preStatus = Unset /\ fixture = NoServer
    /\ passed = 0 /\ failed = 0 /\ skipped = 0 /\ tests = <<>>
    /\ category_stats = EmptyStats /\ adding = NoAdd
    /\ server = NoServer /\ remaining = <<>> /\ sock = "none" /\ response = <<>>
    /\ bulk = 0 /\ elapsed = 0 /\ lookup = NoLookup /\ raised = {} /\ ret = NoRet /\ conns = 0

PerfIdle ==
    /\ futures = <<>> /\ fresult = <<>> /\ peer = <<>> /\ wtask = <<>> /\ yielded = <<>>
    /\ results = <<>> /\ poolpc = "off"

StressIdle ==
    /\ answers = <<>> /\ tpc = <<>> /\ tdone = <<>> /\ treg = <<>> /\ tkind = <<>>
    /\ lock = NoThread /\ success_count = 0 /\ failure_count = 0
    /\ timeout_count = 0 /\ mainpc = "off"

Off == [pc |-> "off"]

MasterIdle == master = Off
LoadIdle   == load = Off
ReuseIdle  == reuse = Off
KeepIdle   == keep = Off
AuxIdle    == MasterIdle /\ LoadIdle /\ ReuseIdle /\ KeepIdle

Init ==
    /\ catalog \in Catalogs
    /\ RunIdle /\ PerfIdle /\ StressIdle /\ AuxIdle

-----------------------------------------------------------------------------
(* ComprehensiveTester.send_request, one step per blocking call            *)

\* where send_request returns to: the connectivity check or test_status
Caller == IF phase = "precheck" THEN "pre_result" ELSE "judge"

\* lines 218-224: the status code of the header block, None when the
\* status line does not parse
ParseStatus(headers) ==
    IF headers # <<>>
    THEN LET parts == SplitWS(Strip(FirstLine(headers)))
         IN IF Len(parts) >= 2 /\ IsDigit(parts[2]) /\ ~IntRaises(parts[2])
            THEN ToInt(parts[2]) ELSE None
    ELSE None

\* lines 207-216: decode, split headers from body
SplitHeaders(bytes) ==
    LET str == Decode(bytes)
    IN IF Contains(str, CRLFCRLF) THEN SplitOnce(str, CRLFCRLF)
       ELSE IF Contains(str, LFLF) THEN SplitOnce(str, LFLF)
       ELSE <<str, <<>>>>

\* line 222: int(parts[1]) raises ValueError
ParseRaises(bytes) ==
    LET headers == SplitHeaders(bytes)[1]
        parts == SplitWS(Strip(FirstLine(headers)))
    IN headers # <<>> /\ Len(parts) >= 2 /\ IsDigit(parts[2]) /\ IntRaises(parts[2])

\* lines 207-226: what send_request returns for the bytes read when the
\* parse does not raise
ParseResponse(bytes) ==
    LET hb == SplitHeaders(bytes)
    IN [status |-> ParseStatus(hb[1]), headers |-> hb[1], body |-> hb[2]]

\* len(response): every token is one byte, a run token RecvSize bytes
ByteLen(b) == Len(b) + (RecvSize - 1) * Cardinality({i \in DOMAIN b : b[i] = BLK})

\* lines 192-201: the two break conditions evaluated after a chunk is appended
\* resp holds the bytes stored, fill counts the stream bytes after them
OverCeiling(resp, fill) == ByteLen(resp) + fill > ByteCeiling
NoBodyHeuristic(resp, fill) ==
    /\ Contains(resp, CRLFCRLF)
    /\ StartsWith(resp, HTTPSlash)
    /\ ByteLen(resp) + fill > HeuristicMinLen
    /\ \E code \in NoBodyCodes : Contains(FirstLine(resp), code)

\* except clauses that drop the exception text
ExceptReturn_NoText(e) == [status |-> None, headers |-> NoHeaders, body |-> <<>>]

\* except clauses that report every exception as a refused connection
ExceptReturn_AllRefused(e) == [status |-> None, headers |-> NoHeaders, body |-> RefusedMsg]

\* lines 228-231: the except clauses turn an exception into a return value
ExceptReturn(e) ==
    IF e = "refused" THEN [status |-> None, headers |-> NoHeaders, body |-> RefusedMsg]
    ELSE [status |-> None, headers |-> NoHeaders, body |-> ExcText(e)]

\* lines 175-177: socket(), settimeout(), connect()
SrConnect(s) ==
    /\ pc = "sr_connect"
    /\ response' = <<>> /\ bulk' = 0 /\ elapsed' = 0 /\ UNCHANGED lookup
    /\ IF s.conn = "ok"
       THEN /\ sock' = "connected"
            /\ conns' = conns + 1
            /\ server' = s
            /\ remaining' = s.stream
            /\ pc' = "sr_send"
            /\ UNCHANGED <<raised, ret>>
       ELSE /\ sock' = "created"
            /\ raised' = raised \cup {<<"connect", s.conn>>}
            /\ ret' = ExceptReturn(s.conn)
            /\ pc' = Caller
            /\ UNCHANGED <<conns, server, remaining>>
    /\ UNCHANGED <<runRest, ledgerVars, perfVars, stressVars, auxVars>>

\* line 183: sendall()
SrSend ==
    /\ pc = "sr_send"
    /\ IF server.send = "ok"
       THEN /\ pc' = "sr_recv"
            /\ UNCHANGED <<raised, ret, server, remaining>>
       ELSE /\ raised' = raised \cup {<<"send", server.send>>}
            /\ ret' = ExceptReturn(server.send)
            /\ pc' = Caller
            /\ server' = NoServer /\ remaining' = <<>>
    /\ UNCHANGED <<runRest, ledgerVars, sock, response, bulk, elapsed, lookup, conns, perfVars, stressVars, auxVars>>

\* lines 188-201: recv() returns n bytes
RecvChunk(n) ==
    /\ pc = "sr_recv"
    /\ remaining # <<>>
    /\ n = Len(remaining) \/ (n < Len(remaining) /\ n <= MaxSplit)
    /\ ByteLen(SubSeq(remaining, 1, n)) <= RecvSize
    /\ LET resp == response \o SubSeq(remaining, 1, n)
       IN /\ response' = resp
          /\ remaining' = SubSeq(remaining, n + 1, Len(remaining))
          /\ pc' = IF OverCeiling(resp, bulk) \/ NoBodyHeuristic(resp, bulk)
                   THEN "sr_close" ELSE "sr_recv"
    /\ UNCHANGED <<runRest,
                   ledgerVars, server, sock, bulk, elapsed, lookup, raised, ret, conns, perfVars, stressVars, auxVars>>

\* the longest a read loop is followed on the clock: two timeouts
ClockCap == 2 * TimeoutBudget
\* a chunk that arrives one second before recv() would time out
LateGap == TimeoutBudget - 1

\* lines 176, 188-201: recv() blocks for LateGap seconds, within the timeout
\* settimeout() set for each socket operation, and then returns n bytes
RecvLate(n) ==
    /\ pc = "sr_recv"
    /\ remaining # <<>>
    /\ n = Len(remaining) \/ (n < Len(remaining) /\ n <= MaxSplit)
    /\ ByteLen(SubSeq(remaining, 1, n)) <= RecvSize
    /\ elapsed + LateGap <= ClockCap
    /\ elapsed' = elapsed + LateGap
    /\ LET resp == response \o SubSeq(remaining, 1, n)
       IN /\ response' = resp
          /\ remaining' = SubSeq(remaining, n + 1, Len(remaining))
          /\ pc' = IF OverCeiling(resp, bulk) \/ NoBodyHeuristic(resp, bulk)
                   THEN "sr_close" ELSE "sr_recv"
    /\ UNCHANGED <<runRest, ledgerVars, server, sock, bulk, lookup, raised, ret, conns,
                   perfVars, stressVars, auxVars>>

\* lines 189-190: recv() returns b"" because the peer closed
RecvEOF ==
    /\ pc = "sr_recv"
    /\ remaining = <<>> /\ server.end = "close"
    /\ pc' = "sr_close"
    /\ UNCHANGED <<runRest,
                   ledgerVars, sockVars, perfVars, stressVars, auxVars>>

\* a timeout that drops the bytes received so far
RecvTimeout_Discard ==
    /\ pc = "sr_recv"
    /\ remaining = <<>> /\ server.end = "silent"
    /\ raised' = raised \cup {<<"recv", "timeout">>}
    /\ elapsed' = elapsed + TimeoutBudget
    /\ response' = <<>> /\ bulk' = 0 /\ UNCHANGED lookup
    /\ pc' = "sr_close"
    /\ UNCHANGED <<runRest, ledgerVars, server, remaining, sock, ret, conns,
                   perfVars, stressVars, auxVars>>

\* a timeout that reaches the outer handler like any other exception
RecvTimeout_Propagates ==
    /\ pc = "sr_recv"
    /\ remaining = <<>> /\ server.end = "silent"
    /\ raised' = raised \cup {<<"recv", "timeout">>}
    /\ elapsed' = 0
    /\ ret' = ExceptReturn("timeout")
    /\ pc' = Caller
    /\ server' = NoServer /\ remaining' = <<>> /\ response' = <<>> /\ bulk' = 0
    /\ UNCHANGED <<runRest, ledgerVars, sock, lookup, conns, perfVars, stressVars, auxVars>>

\* lines 202-203: recv() raises socket.timeout, the loop is left
RecvTimeout ==
    /\ pc = "sr_recv"
    /\ remaining = <<>> /\ server.end = "silent"
    /\ raised' = raised \cup {<<"recv", "timeout">>}
    /\ elapsed' = elapsed + TimeoutBudget
    /\ pc' = "sr_close"
    /\ UNCHANGED <<runRest,
                   ledgerVars, server, remaining, sock, response, bulk, lookup, ret, conns,
                   perfVars, stressVars, auxVars>>

\* a receive error answered by connecting again
RecvError_Reconnect ==
    /\ pc = "sr_recv"
    /\ remaining = <<>> /\ server.end = "reset"
    /\ raised' = raised \cup {<<"recv", "reset">>}
    /\ pc' = "sr_connect"
    /\ server' = NoServer /\ remaining' = <<>> /\ response' = <<>> /\ bulk' = 0 /\ elapsed' = 0 /\ UNCHANGED lookup
    /\ UNCHANGED <<runRest, ledgerVars, sock, ret, conns, perfVars, stressVars, auxVars>>

\* lines 230-231: recv() raises another OSError, caught by the outer handler
RecvError ==
    /\ pc = "sr_recv"
    /\ remaining = <<>> /\ server.end = "reset"
    /\ raised' = raised \cup {<<"recv", "reset">>}
    /\ ret' = ExceptReturn("reset")
    /\ pc' = Caller
    /\ server' = NoServer /\ remaining' = <<>> /\ response' = <<>> /\ bulk' = 0 /\ elapsed' = 0 /\ UNCHANGED lookup
    /\ UNCHANGED <<runRest, ledgerVars, sock, conns, perfVars, stressVars, auxVars>>

\* lines 188-201 against a peer that streams without end: recv() returns n
\* more bytes of body
RecvStream(n) ==
    /\ pc = "sr_recv"
    /\ remaining = <<>> /\ server.end = "stream"
    /\ n <= RecvSize
    /\ bulk' = bulk + n
    /\ UNCHANGED <<elapsed, lookup>>
    /\ pc' = IF OverCeiling(response, bulk + n) \/ NoBodyHeuristic(response, bulk + n)
             THEN "sr_close" ELSE "sr_recv"
    /\ UNCHANGED <<runRest, ledgerVars, server, remaining, sock, response, raised, ret,
                   conns, perfVars, stressVars, auxVars>>

\* a parse outside the try block: its ValueError leaves send_request and
\* test_status and ends the try block of run_all_tests
SrFinish_Unguarded ==
    /\ pc = "sr_close"
    /\ sock' = "closed"
    /\ IF ParseRaises(response)
       THEN /\ raised' = raised \cup {<<"parse", "value">>}
            /\ cause' = "error" /\ phase' = "summary" /\ pc' = "summary"
            /\ UNCHANGED ret
       ELSE /\ ret' = ParseResponse(response)
            /\ pc' = Caller
            /\ UNCHANGED <<raised, cause, phase>>
    /\ server' = NoServer /\ remaining' = <<>> /\ response' = <<>> /\ bulk' = 0 /\ elapsed' = 0 /\ UNCHANGED lookup
    /\ UNCHANGED <<catalog, fixture, idx, attempted, exitCode, preStatus,
                   ledgerVars, conns, perfVars, stressVars, auxVars>>

\* lines 205-231: close(), parse, return; a ValueError of the parse is
\* caught by `except Exception` like any other
SrFinish ==
    /\ pc = "sr_close"
    /\ sock' = "closed"
    /\ IF ParseRaises(response)
       THEN /\ raised' = raised \cup {<<"parse", "value">>}
            /\ ret' = ExceptReturn("value")
       ELSE /\ ret' = ParseResponse(response)
            /\ UNCHANGED raised
    /\ pc' = Caller
    /\ server' = NoServer /\ remaining' = <<>> /\ response' = <<>> /\ bulk' = 0 /\ elapsed' = 0 /\ UNCHANGED lookup
    /\ UNCHANGED <<runRest, ledgerVars, conns, perfVars, stressVars, auxVars>>

\* lines 228-231: the except clauses return without sock.close(); the local
\* sock is dropped with the frame and the descriptor is released whenever
\* the interpreter finalizes the socket object: at the return under
\* reference counting, at some later collection otherwise
InCall == pc \in {"sr_connect", "sr_send", "sr_recv", "sr_close"}
OpenStates == {"created", "connected"}
Finalize ==
    /\ ~InCall
    /\ sock \in OpenStates
    /\ sock' = "closed"
    /\ UNCHANGED <<runVars, ledgerVars, server, remaining, response, bulk, elapsed, lookup,
                   raised, ret, conns, perfVars, stressVars, auxVars>>

-----------------------------------------------------------------------------
(* TestResult.add_pass / add_fail / add_skip, one step per statement       *)

\* lines 42, 51, 59: self.passed += 1 | self.failed += 1 | self.skipped += 1
AddCount ==
    /\ pc = "add_count"
    /\ passed'  = IF adding.verdict = "PASS" THEN passed + 1 ELSE passed
    /\ failed'  = IF adding.verdict = "FAIL" THEN failed + 1 ELSE failed
    /\ skipped' = IF adding.verdict = "SKIP" THEN skipped + 1 ELSE skipped
    /\ pc' = "add_append"
    /\ UNCHANGED <<runRest, tests, category_stats, adding, sockVars, perfVars, stressVars, auxVars>>

\* lines 43, 52, 60: self.tests.append(...)
AddAppend ==
    /\ pc = "add_append"
    /\ tests' = Append(tests, adding)
    /\ pc' = "add_cat"
    /\ UNCHANGED <<runRest, passed, failed, skipped, category_stats, adding,
                   sockVars, perfVars, stressVars, auxVars>>

\* lines 44-45, 53-54, 61-62: create the category's tally on first use
AddCategory ==
    /\ pc = "add_cat"
    /\ category_stats' =
          IF adding.category \in DOMAIN category_stats THEN category_stats
          ELSE [c \in DOMAIN category_stats \cup {adding.category} |->
                   IF c = adding.category THEN ZeroTally ELSE category_stats[c]]
    /\ pc' = "add_tally"
    /\ UNCHANGED <<runRest, passed, failed, skipped, tests, adding,
                   sockVars, perfVars, stressVars, auxVars>>

\* the tally of category c after one more outcome with verdict v
Bump(t, v) ==
    [passed  |-> IF v = "PASS" THEN t.passed + 1 ELSE t.passed,
     failed  |-> IF v = "FAIL" THEN t.failed + 1 ELSE t.failed,
     skipped |-> IF v = "SKIP" THEN t.skipped + 1 ELSE t.skipped]

\* lines 46, 55, 63: self.category_stats[category][...] += 1, then the call
\* returns and the runner moves on to its next statement
AddTally ==
    /\ pc = "add_tally"
    /\ category_stats' = [category_stats EXCEPT
                            ![adding.category] = Bump(@, adding.verdict)]
    /\ adding' = NoAdd
    /\ idx' = idx + 1
    /\ pc' = "next"
    /\ ret' = NoRet /\ raised' = {}
    /\ UNCHANGED <<catalog, fixture, phase, attempted, cause, exitCode, preStatus,
                   passed, failed, skipped, tests,
                   server, remaining, sock, response, bulk, elapsed, lookup, conns, perfVars, stressVars, auxVars>>

-----------------------------------------------------------------------------
(* ComprehensiveTester.test_status and run_all_tests                       *)

\* a matcher that forgets the alternatives
Verdict_ExpectedOnly(status, body, c, name) ==
    IF status = None
    THEN Entry("FAIL", name, c.category, c.expected, AbsentGot, <<"No response: ">> \o body)
    ELSE IF status = c.expected
         THEN Entry("PASS", name, c.category, c.expected, status, <<>>)
         ELSE Entry("FAIL", name, c.category, c.expected, status, <<>>)

\* a matcher without the `status is None` branch
Verdict_NoAbsentBranch(status, body, c, name) ==
    IF status = c.expected \/ (c.alts # {} /\ status \in c.alts)
    THEN Entry("PASS", name, c.category, c.expected, status, <<>>)
    ELSE Entry("FAIL", name, c.category, c.expected, status, <<>>)

\* lines 238-248: the verdict for a returned (status, headers, body)
Verdict(status, body, c, name) ==
    IF status = None
    THEN Entry("FAIL", name, c.category, c.expected, AbsentGot, <<"No response: ">> \o body)
    ELSE IF status = c.expected \/ (c.alts # {} /\ status \in c.alts)
         THEN Entry("PASS", name, c.category, c.expected, status, <<>>)
         ELSE Entry("FAIL", name, c.category, c.expected, status, <<>>)

\* lines 965-975: run_all_tests starts with the connectivity check
Start ==
    /\ pc = "idle"
    /\ phase' = "precheck"
    /\ pc' = "sr_connect"
    /\ raised' = {}
    /\ UNCHANGED <<catalog, fixture, idx, attempted, cause, exitCode, preStatus, ledgerVars,
                   server, remaining, sock, response, bulk, elapsed, lookup, ret, conns, perfVars, stressVars, auxVars>>

\* a connectivity check whose result is ignored
PreResult_Ignored ==
    /\ pc = "pre_result"
    /\ preStatus' = ret.status
    /\ phase' = "running" /\ pc' = "next" /\ UNCHANGED <<exitCode, cause>>
    /\ ret' = NoRet /\ raised' = {}
    /\ UNCHANGED <<catalog, fixture, idx, attempted, ledgerVars,
                   server, remaining, sock, response, bulk, elapsed, lookup, conns, perfVars, stressVars, auxVars>>

\* lines 975-981: status is None -> return 1 before any case runs
PreResult ==
    /\ pc = "pre_result"
    /\ preStatus' = ret.status
    /\ IF ret.status = None
       THEN /\ exitCode' = 1 /\ phase' = "done" /\ pc' = "done" /\ cause' = "precheck"
       ELSE /\ phase' = "running" /\ pc' = "next" /\ UNCHANGED <<exitCode, cause>>
    /\ ret' = NoRet /\ raised' = {}
    /\ UNCHANGED <<catalog, fixture, idx, attempted, ledgerVars,
                   server, remaining, sock, response, bulk, elapsed, lookup, conns, perfVars, stressVars, auxVars>>

\* line 236: a test_status call begins with send_request
BeginTest ==
    /\ pc = "next" /\ idx <= Len(catalog)
    /\ catalog[idx].kind = "test"
    /\ attempted' = attempted \cup {idx}
    /\ raised' = {}
    /\ pc' = "sr_connect"
    /\ UNCHANGED <<catalog, fixture, phase, idx, cause, exitCode, preStatus, ledgerVars,
                   server, remaining, sock, response, bulk, elapsed, lookup, ret, conns, perfVars, stressVars, auxVars>>

\* lines 466, 527, 543, 716: self.results.add_skip(...); the attribute lookup
\* on the tester raises AttributeError when the tester has no such attribute,
\* which leaves the try block through `except Exception` (lines 1020-1023)
BeginSkip ==
    /\ pc = "next" /\ idx <= Len(catalog)
    /\ catalog[idx].kind = "skip"
    /\ attempted' = attempted \cup {idx}
    /\ IF SkipLedgerAttr \in TesterAttrs
       THEN /\ adding' = Entry("SKIP", idx, catalog[idx].category, SkipCode, SkipCode,
                               catalog[idx].reason)
            /\ pc' = "add_count"
            /\ UNCHANGED <<phase, cause>>
       ELSE /\ cause' = "error" /\ phase' = "summary" /\ pc' = "summary"
            /\ UNCHANGED adding
    /\ UNCHANGED <<catalog, fixture, idx, exitCode, preStatus, passed, failed, skipped, tests,
                   category_stats, sockVars, perfVars, stressVars, auxVars>>

\* lines 238-248: test_status judges what send_request returned
Judge ==
    /\ pc = "judge"
    /\ adding' = Verdict(ret.status, ret.body, catalog[idx], idx)
    /\ pc' = "add_count"
    /\ UNCHANGED <<runRest, passed, failed, skipped, tests, category_stats,
                   sockVars, perfVars, stressVars, auxVars>>

\* lines 1016-1026: the last test_* method returned
EndOfCatalog ==
    /\ pc = "next" /\ idx > Len(catalog)
    /\ cause' = "completed" /\ phase' = "summary" /\ pc' = "summary"
    /\ UNCHANGED <<catalog, fixture, idx, attempted, exitCode, preStatus, ledgerVars,
                   sockVars, perfVars, stressVars, auxVars>>

\* lines 1018-1019: KeyboardInterrupt delivered inside the try block, between
\* any two statements of the main thread
InterruptInTry ==
    /\ phase = "running"
    /\ cause' = "interrupt" /\ phase' = "summary" /\ pc' = "summary"
    /\ adding' = NoAdd /\ ret' = NoRet /\ raised' = {}
    /\ server' = NoServer /\ remaining' = <<>> /\ response' = <<>> /\ bulk' = 0 /\ elapsed' = 0 /\ UNCHANGED lookup
    /\ UNCHANGED <<catalog, fixture, idx, attempted, exitCode, preStatus,
                   passed, failed, skipped, tests, category_stats,
                   sock, conns, perfVars, stressVars, auxVars>>

\* KeyboardInterrupt outside the try block (lines 975, 1026) is not caught:
\* the interpreter dies of SIGINT
InterruptOutsideTry ==
    /\ phase \in {"precheck", "summary"}
    /\ phase' = "crashed" /\ pc' = "done" /\ exitCode' = 130
    /\ adding' = NoAdd /\ ret' = NoRet /\ raised' = {}
    /\ server' = NoServer /\ remaining' = <<>> /\ response' = <<>> /\ bulk' = 0 /\ elapsed' = 0 /\ UNCHANGED lookup
    /\ UNCHANGED <<catalog, fixture, idx, attempted, cause, preStatus,
                   passed, failed, skipped, tests, category_stats,
                   sock, conns, perfVars, stressVars, auxVars>>

\* a summary that empties the list of entries it has written out
PrintSummary_Drains ==
    /\ pc = "summary"
    /\ IF passed + failed + skipped = 0
       THEN /\ phase' = "crashed" /\ exitCode' = 1
       ELSE /\ phase' = "done" /\ exitCode' = IF failed = 0 THEN 0 ELSE 1
    /\ pc' = "done"
    /\ tests' = <<>>
    /\ UNCHANGED <<catalog, fixture, idx, attempted, cause, preStatus,
                   passed, failed, skipped, category_stats, adding,
                   sockVars, perfVars, stressVars, auxVars>>

\* lines 65-159 and 1026-1029: print_summary divides by the total, writes the
\* report (save_results, line 102) and lists the failures; then run_all_tests
\* returns 0 iff no case failed
PrintSummary ==
    /\ pc = "summary"
    /\ IF passed + failed + skipped = 0
       THEN /\ phase' = "crashed" /\ exitCode' = 1    \* ZeroDivisionError, line 73
       ELSE /\ phase' = "done" /\ exitCode' = IF failed = 0 THEN 0 ELSE 1
    /\ pc' = "done"
    /\ UNCHANGED <<catalog, fixture, idx, attempted, cause, preStatus, ledgerVars,
                   sockVars, perfVars, stressVars, auxVars>>

SendRequest ==
    \/ \E s \in Servers : SrConnect(s)
    \/ SrSend
    \/ \E n \in 1..MaxStream : RecvChunk(n)
    \/ RecvEOF
    \/ RecvTimeout
    \/ RecvError
    \/ SrFinish
    \/ Finalize

Next ==
    \/ Start
    \/ SendRequest
    \/ PreResult
    \/ BeginTest
    \/ BeginSkip
    \/ Judge
    \/ AddCount \/ AddAppend \/ AddCategory \/ AddTally
    \/ EndOfCatalog
    \/ InterruptInTry
    \/ InterruptOutsideTry
    \/ PrintSummary

Spec == Init /\ [][Next]_vars

-----------------------------------------------------------------------------
(* test_status called again and again for one case against one fixture:    *)
(* the read loop and the parser on fixed response bytes                    *)

Reruns == 2           \* how often the case is run against the fixture

OkLine == StatusLine(<<"2","0","0">>, <<"O","K">>)
ContentLengthName == <<"C", "o", "n", "t", "e", "n", "t", "-", "L", "e", "n", "g", "t", "h", ":">>
TransferChunked   == <<"T", "r", "a", "n", "s", "f", "e", "r", "-", "E", "n", "c", "o", "d", "i", "n", "g", ":", SP, "c", "h", "u", "n", "k", "e", "d">>
LenHello  == OkLine \o ContentLengthName \o <<SP, "5", CR, LF, CR, LF>>
                    \o <<"H","E","L","L","O","E","X","T","R","A">>
TwoLens   == OkLine \o ContentLengthName \o <<SP, "5", CR, LF>>
                    \o ContentLengthName \o <<SP, "7", CR, LF, CR, LF>>
                    \o <<"H","E","L","L","O","E","X">>
ChunkedHello == OkLine \o TransferChunked \o <<CR, LF, CR, LF>>
                    \o <<"5", CR, LF, "H","e","l","l","o", CR, LF, "0", CR, LF, CR, LF>>
Long404Body == Long404 \o <<"y">>
SupStatus == Http11 \o <<SP, SUP2, "0", "0", SP, "O", "K", CR, LF, CR, LF>>
BadBody   == OkLine \o <<CR, LF, "B", BAD, "e">>
StreamHead == OkLine \o <<CR, LF>>
\* a response that opens with exactly ByteCeiling bytes of spaces: its
\* status line begins at the first byte past the 1 MB limit
PadBlocks == ByteCeiling \div RecvSize
PaddedNotFound == [i \in 1..PadBlocks |-> BLK]
                      \o StatusLine(<<"4","0","4">>, <<"N","F">>) \o <<CR, LF>>
\* a header that never ends: the stream that follows holds no line terminator
StreamHeadless == OkLine \o <<"X", ":">>
\* a status line cut off inside the status code
CutStatus == Http11 \o <<SP, "2", "0">>
Resp204   == StatusLine(<<"2","0","4">>, <<"N","C">>) \o <<CR, LF>>
ChunkedBad == OkLine \o TransferChunked \o <<CR, LF, CR, LF>>
                    \o <<"Z", CR, LF, "H","i">>
JunkCr    == <<"j", "u", "n", "k", CR, LF, CR, LF, "z">>
\* a header block that ends in LF LF, with a CRLF CRLF inside the body
LfThenCrlf == Http11 \o <<SP, "2", "0", "0", SP, "O", "K", LF, LF>>
                    \o <<"a", "b", CR, LF, CR, LF, "c", "d">>
\* a line without a colon and a header sent twice
DupHeaders == OkLine \o <<"r", "a", "w", CR, LF>>
                    \o <<"A", ":", SP, "1", SP, CR, LF>>
                    \o <<"a", ":", "2", ":", "3", CR, LF, CR, LF, "B">>

FrameServers == {
    Peer("ok", "ok", LenHello, "silent"),
    Peer("ok", "ok", LenHello, "close"),
    Peer("ok", "ok", TwoLens, "close"),
    Peer("ok", "ok", ChunkedHello, "close"),
    Peer("ok", "ok", Resp200, "close"),
    Peer("ok", "ok", Resp200, "silent"),
    Peer("ok", "ok", Long404Body, "close"),
    Peer("ok", "ok", StreamHead, "stream"),
    Peer("ok", "ok", SupStatus, "close"),
    Peer("ok", "ok", BadBody, "close"),
    Peer("ok", "ok", Partial, "silent"),
    Peer("ok", "ok", Partial, "reset"),
    Peer("ok", "ok", Junk, "close"),
    Peer("ok", "ok", <<>>, "close"),
    Peer("ok", "ok", <<>>, "silent"),
    Peer("ok", "ok", StreamHeadless, "stream"),
    Peer("ok", "ok", CutStatus, "silent"),
    Peer("ok", "ok", Resp204, "silent"),
    Peer("ok", "ok", ChunkedBad, "silent"),
    Peer("ok", "ok", JunkCr, "silent"),
    Peer("ok", "ok", LfThenCrlf, "close"),
    Peer("ok", "ok", DupHeaders, "close"),
    Peer("ok", "ok", PaddedNotFound, "close"),
    Peer("refused", "ok", <<>>, "close") }

FrameMaxStream == Len(Long404Body)
\* sizes of the reads an endless stream is received in: full and half reads
StreamReads == {RecvSize, RecvSize \div 2}

\* the state after a connectivity check that got a status: the ledger is
\* empty, one connection was opened and closed
InitFrame ==
    /\ fixture \in FrameServers
    /\ catalog \in {[i \in 1..Reruns |-> t] : t \in TestCalls}
    /\ pc = "next" /\ phase = "running" /\ idx = 1 /\ attempted = {}
    /\ cause = "none" /\ exitCode = NoExit /\ preStatus = 200
    /\ passed = 0 /\ failed = 0 /\ skipped = 0 /\ tests = <<>>
    /\ category_stats = EmptyStats /\ adding = NoAdd
    /\ server = NoServer /\ remaining = <<>> /\ sock = "closed" /\ response = <<>>
    /\ bulk = 0 /\ elapsed = 0 /\ lookup = NoLookup /\ raised = {} /\ ret = NoRet /\ conns = 1
    /\ PerfIdle /\ StressIdle /\ AuxIdle

NextFrame ==
    \/ BeginTest
    \/ SrConnect(fixture)
    \/ SrSend
    \/ \E n \in 1..FrameMaxStream : RecvChunk(n)
    \/ \E n \in 1..FrameMaxStream : RecvLate(n)
    \/ \E n \in StreamReads : RecvStream(n)
    \/ RecvEOF
    \/ RecvTimeout
    \/ RecvError
    \/ SrFinish
    \/ Finalize
    \/ Judge
    \/ AddCount \/ AddAppend \/ AddCategory \/ AddTally
    \/ EndOfCatalog
    \/ PrintSummary

SpecFrame == InitFrame /\ [][NextFrame]_vars

-----------------------------------------------------------------------------
(* HTTPTester.send_request (src/tests/scripts/test_webserv.py), called     *)
(* once against a fixture                                                  *)

HtRecvSize == 4096           \* sock.recv(4096)
\* the bytes the process can hold before `response += chunk` exhausts its
\* memory: some amount above the 1MB limit of the other read loops
StreamCap == ByteCeiling + 2 * RecvSize
HtStreamReads == {HtRecvSize, HtRecvSize \div 2}

\* lines 106-107: except Exception as e: return None, str(e)
HtExcept(e) ==
    [status |-> Unset, headers |-> NoHeaders,
     body |-> IF e = "refused" THEN <<"[Errno 111] Connection refused">> ELSE ExcText(e)]

\* lines 97-104: decode, split at the first CRLFCRLF
HtParse(bytes) ==
    LET str == Decode(bytes)
    IN IF Contains(str, CRLFCRLF)
       THEN [status |-> Unset, headers |-> SplitOnce(str, CRLFCRLF)[1],
             body |-> SplitOnce(str, CRLFCRLF)[2]]
       ELSE [status |-> Unset, headers |-> str, body |-> <<>>]

\* the peers HTTPTester is run against: one endless stream is enough
HtServers == FrameServers \ {Peer("ok", "ok", StreamHeadless, "stream"),
                             Peer("ok", "ok", PaddedNotFound, "close")}

InitHt ==
    /\ fixture \in HtServers
    /\ catalog = <<>> /\ pc = "ht_connect" /\ phase = "idle" /\ idx = 1 /\ attempted = {}
    /\ cause = "none" /\ exitCode = NoExit /\ preStatus = Unset
    /\ passed = 0 /\ failed = 0 /\ skipped = 0 /\ tests = <<>>
    /\ category_stats = EmptyStats /\ adding = NoAdd
    /\ server = NoServer /\ remaining = <<>> /\ sock = "none" /\ response = <<>>
    /\ bulk = 0 /\ elapsed = 0 /\ lookup = NoLookup /\ raised = {} /\ ret = NoRet /\ conns = 0
    /\ PerfIdle /\ StressIdle /\ AuxIdle

\* lines 80-82: socket(), settimeout(), connect()
HtConnect(s) ==
    /\ pc = "ht_connect"
    /\ IF s.conn = "ok"
       THEN /\ sock' = "connected" /\ conns' = conns + 1
            /\ server' = s /\ remaining' = s.stream
            /\ pc' = "ht_send"
            /\ UNCHANGED <<raised, ret>>
       ELSE /\ sock' = "created"
            /\ raised' = raised \cup {<<"connect", s.conn>>}
            /\ ret' = HtExcept(s.conn)
            /\ pc' = "ht_done"
            /\ UNCHANGED <<conns, server, remaining>>
    /\ UNCHANGED <<runRest, ledgerVars, response, bulk, elapsed, lookup, perfVars, stressVars, auxVars>>

\* line 83: sendall()
HtSend ==
    /\ pc = "ht_send"
    /\ IF server.send = "ok"
       THEN /\ pc' = "ht_recv"
            /\ UNCHANGED <<raised, ret>>
       ELSE /\ raised' = raised \cup {<<"send", server.send>>}
            /\ ret' = HtExcept(server.send)
            /\ pc' = "ht_done"
    /\ UNCHANGED <<runRest, ledgerVars, server, remaining, sock, response, bulk, elapsed, lookup, conns,
                   perfVars, stressVars, auxVars>>

\* lines 88-91: recv() returns n bytes, the loop goes on
HtRecvChunk(n) ==
    /\ pc = "ht_recv"
    /\ remaining # <<>>
    /\ n <= HtRecvSize
    /\ n = Len(remaining) \/ (n < Len(remaining) /\ n <= MaxSplit)
    /\ response' = response \o SubSeq(remaining, 1, n)
    /\ remaining' = SubSeq(remaining, n + 1, Len(remaining))
    /\ UNCHANGED <<pc, runRest, ledgerVars, server, sock, bulk, elapsed, lookup, raised, ret, conns,
                   perfVars, stressVars, auxVars>>

\* lines 88-91 against a peer that streams without end
HtRecvStream(n) ==
    /\ pc = "ht_recv"
    /\ remaining = <<>> /\ server.end = "stream"
    /\ n <= HtRecvSize
    /\ bulk + n <= StreamCap
    /\ bulk' = bulk + n
    /\ UNCHANGED <<elapsed, lookup>>
    /\ UNCHANGED <<pc, runRest, ledgerVars, server, remaining, sock, response, raised, ret,
                   conns, perfVars, stressVars, auxVars>>

\* line 91 when the accumulated bytes exhaust the memory: `response += chunk`
\* raises MemoryError, caught at lines 106-107 ...
HtMemoryError ==
    /\ pc = "ht_recv"
    /\ remaining = <<>> /\ server.end = "stream"
    /\ \A n \in HtStreamReads : bulk + n > StreamCap
    /\ raised' = raised \cup {<<"recv", "memory">>}
    /\ ret' = HtExcept("memory")
    /\ pc' = "ht_done"
    /\ UNCHANGED <<runRest, ledgerVars, server, remaining, sock, response, bulk, elapsed, lookup, conns,
                   perfVars, stressVars, auxVars>>

\* ... or the system kills the process that holds the memory
HtKilled ==
    /\ pc = "ht_recv"
    /\ remaining = <<>> /\ server.end = "stream"
    /\ \A n \in HtStreamReads : bulk + n > StreamCap
    /\ pc' = "killed"
    /\ UNCHANGED <<runRest, ledgerVars, sockVars, perfVars, stressVars, auxVars>>

\* lines 89-90: recv() returns b"" because the peer closed
HtRecvEOF ==
    /\ pc = "ht_recv"
    /\ remaining = <<>> /\ server.end = "close"
    /\ pc' = "ht_close"
    /\ UNCHANGED <<runRest, ledgerVars, sockVars, perfVars, stressVars, auxVars>>

\* lines 92-93: recv() raises socket.timeout, the loop is left
HtRecvTimeout ==
    /\ pc = "ht_recv"
    /\ remaining = <<>> /\ server.end = "silent"
    /\ raised' = raised \cup {<<"recv", "timeout">>}
    /\ elapsed' = elapsed + TimeoutBudget
    /\ pc' = "ht_close"
    /\ UNCHANGED <<runRest, ledgerVars, server, remaining, sock, response, bulk, lookup, ret, conns,
                   perfVars, stressVars, auxVars>>

\* lines 106-107: recv() raises another OSError
HtRecvError ==
    /\ pc = "ht_recv"
    /\ remaining = <<>> /\ server.end = "reset"
    /\ raised' = raised \cup {<<"recv", "reset">>}
    /\ ret' = HtExcept("reset")
    /\ pc' = "ht_done"
    /\ UNCHANGED <<runRest, ledgerVars, server, remaining, sock, response, bulk, elapsed, lookup, conns,
                   perfVars, stressVars, auxVars>>

\* lines 95-104: close(), decode, split, return
HtFinish ==
    /\ pc = "ht_close"
    /\ sock' = "closed"
    /\ ret' = HtParse(response)
    /\ pc' = "ht_done"
    /\ UNCHANGED <<runRest, ledgerVars, server, remaining, response, bulk, elapsed, lookup, raised, conns,
                   perfVars, stressVars, auxVars>>

\* str.lower() on the letters
UpperCase == <<"A","B","C","D","E","F","G","H","I","J","K","L","M",
               "N","O","P","Q","R","S","T","U","V","W","X","Y","Z">>
LowerCase == <<"a","b","c","d","e","f","g","h","i","j","k","l","m",
               "n","o","p","q","r","s","t","u","v","w","x","y","z">>
LowerChar(c) == IF \E i \in 1..Len(UpperCase) : UpperCase[i] = c
                THEN LowerCase[CHOOSE i \in 1..Len(UpperCase) : UpperCase[i] = c]
                ELSE c
Lower(s) == [i \in 1..Len(s) |-> LowerChar(s[i])]

Colon == <<":">>
\* headers.split('\r\n')
RECURSIVE SplitCRLF(_)
SplitCRLF(h) ==
    IF Contains(h, <<CR, LF>>)
    THEN <<SplitOnce(h, <<CR, LF>>)[1]>> \o SplitCRLF(SplitOnce(h, <<CR, LF>>)[2])
    ELSE <<h>>

\* test_webserv.py lines 148-153: the loop over the lines returns at the
\* first line whose name matches; None when no line does
RECURSIVE CheckLines(_, _)
CheckLines(lines, header_name) ==
    IF lines = <<>> THEN NoHeaders
    ELSE LET line == Head(lines)
         IN IF /\ Contains(line, Colon)
               /\ Lower(Strip(SplitOnce(line, Colon)[1])) = Lower(header_name)
            THEN Strip(SplitOnce(line, Colon)[2])
            ELSE CheckLines(Tail(lines), header_name)

\* a check_header that returns the last matching line
CheckHeader_Last(headers, header_name) ==
    LET ls == SplitCRLF(headers)
    IN CheckLines([i \in 1..Len(ls) |-> ls[Len(ls) + 1 - i]], header_name)

\* test_webserv.py lines 145-153: HTTPTester.check_header
CheckHeader(headers, header_name) == CheckLines(SplitCRLF(headers), header_name)

\* the header names the tests look up
LookupNames == {<<"a">>, <<"r", "a", "w">>, <<"Z">>,
                <<"c","o","n","t","e","n","t","-","l","e","n","g","t","h">>}

\* test_webserv.py lines 266-268: `if headers:` and then
\* self.check_header(headers, name)
HtCheckHeader(name) ==
    /\ pc = "ht_done"
    /\ ret.headers \notin {NoHeaders, <<>>}
    /\ lookup' = [name |-> name, value |-> CheckHeader(ret.headers, name)]
    /\ pc' = "ht_checked"
    /\ UNCHANGED <<runRest, ledgerVars, server, remaining, sock, response, bulk, elapsed,
                   raised, ret, conns, perfVars, stressVars, auxVars>>

\* test_webserv.py lines 77-107: the steps of send_request
HtSendRequest ==
    \/ HtConnect(fixture)
    \/ HtSend
    \/ \E n \in 1..FrameMaxStream : HtRecvChunk(n)
    \/ \E n \in HtStreamReads : HtRecvStream(n)
    \/ HtMemoryError
    \/ HtKilled
    \/ HtRecvEOF
    \/ HtRecvTimeout
    \/ HtRecvError
    \/ HtFinish

NextHt ==
    \/ HtSendRequest
    \/ \E name \in LookupNames : HtCheckHeader(name)

SpecHt == InitHt /\ [][NextHt]_vars

\* the thread that runs send_request keeps running
SpecHtFair == SpecHt /\ WF_vars(HtSendRequest)

-----------------------------------------------------------------------------
(* PerformanceTester.send_single_request and concurrent_requests_test      *)

NoResult == [success |-> FALSE, status_code |-> None, error |-> <<"<pending>">>]
PerfResult(ok, st, err) == [success |-> ok, status_code |-> st, error |-> err]

\* lines 50-62: the bytes the recv loop holds when it is left, for a peer
\* that delivers c bytes per recv; drained tells that the last recv was
\* issued after the peer's last byte (it sees EOF, a timeout or an error)
RECURSIVE PerfRecvLoop(_, _, _)
PerfRecvLoop(resp, rest, c) ==
    IF rest = <<>> THEN [bytes |-> resp, drained |-> TRUE]
    ELSE LET n == IF c < Len(rest) THEN c ELSE Len(rest)
             r == resp \o SubSeq(rest, 1, n)
         IN IF Len(r) > ByteCeiling \/ (Contains(r, CRLFCRLF) /\ Len(r) > HeuristicMinLen)
            THEN [bytes |-> r, drained |-> FALSE]
            ELSE PerfRecvLoop(r, SubSeq(rest, n + 1, Len(rest)), c)

\* lines 69-78: status code of the first line, None when it does not parse
PerfStatus(resp) ==
    IF resp = <<>> THEN None
    ELSE LET parts == SplitWS(FirstLine(Decode(resp)))
         IN IF Len(parts) >= 2 /\ IsDigit(parts[2]) /\ ~IntRaises(parts[2])
            THEN ToInt(parts[2]) ELSE None

\* lines 33-95: the dict send_single_request returns against peer s
SendSingleRequest(s, c) ==
    IF s.conn # "ok" THEN
        PerfResult(FALSE, None, IF s.conn = "refused"
                                THEN <<"[Errno 111] Connection refused">>
                                ELSE ExcText(s.conn))
    ELSE IF s.send # "ok" THEN PerfResult(FALSE, None, ExcText(s.send))
    ELSE LET loop == PerfRecvLoop(<<>>, s.stream, c)
         IN IF loop.drained /\ s.end = "reset"
            THEN PerfResult(FALSE, None, ExcText("reset"))
            ELSE PerfResult(TRUE, PerfStatus(loop.bytes), <<>>)

PerfServers == {
    Peer("ok", "ok", Resp200, "close"),
    Peer("ok", "ok", Resp500, "close"),
    Peer("refused", "ok", <<>>, "close"),
    Peer("ok", "ok", Partial, "reset") }

Requests == 1..NumRequests
Workers  == 1..NumWorkers

InitPerf ==
    /\ catalog = <<>> /\ RunIdle /\ StressIdle /\ AuxIdle
    /\ futures = <<>> /\ fresult = <<>> /\ peer = <<>>
    /\ wtask = [w \in Workers |-> 0]
    /\ yielded = <<>> /\ results = <<>> /\ poolpc = "submit"

\* line 108: executor.submit(self.send_single_request, request)
Submit(s) ==
    /\ poolpc = "submit"
    /\ Len(futures) < NumRequests
    /\ futures' = Append(futures, "queued")
    /\ fresult' = Append(fresult, NoResult)
    /\ peer' = Append(peer, s)
    /\ UNCHANGED <<wtask, yielded, results, poolpc, runVars, ledgerVars, sockVars, stressVars, auxVars>>

\* line 110: the list of futures is complete, as_completed starts
StartCollect ==
    /\ poolpc = "submit"
    /\ Len(futures) = NumRequests
    /\ poolpc' = "collect"
    /\ UNCHANGED <<futures, fresult, peer, wtask, yielded, results,
                   runVars, ledgerVars, sockVars, stressVars, auxVars>>

\* a pool thread takes the oldest queued work item
Take(w) ==
    /\ wtask[w] = 0
    /\ \E i \in 1..Len(futures) :
          /\ futures[i] = "queued"
          /\ \A j \in 1..(i - 1) : futures[j] # "queued"
          /\ futures' = [futures EXCEPT ![i] = "running"]
          /\ wtask' = [wtask EXCEPT ![w] = i]
    /\ UNCHANGED <<fresult, peer, yielded, results, poolpc,
                   runVars, ledgerVars, sockVars, stressVars, auxVars>>

\* lines 33-95: send_single_request returns, the future is resolved
Finish(w, c) ==
    /\ wtask[w] # 0
    /\ LET i == wtask[w]
       IN /\ fresult' = [fresult EXCEPT ![i] = SendSingleRequest(peer[i], c)]
          /\ futures' = [futures EXCEPT ![i] = "done"]
    /\ wtask' = [wtask EXCEPT ![w] = 0]
    /\ UNCHANGED <<peer, yielded, results, poolpc, runVars, ledgerVars, sockVars, stressVars, auxVars>>

InYield(i) == \E k \in 1..Len(yielded) : yielded[k] = i

\* a collector that does not wait for the future to be resolved
Collect_NoWait(i) ==
    /\ poolpc = "collect"
    /\ i \in 1..Len(futures) /\ futures[i] # "queued" /\ ~InYield(i)
    /\ yielded' = Append(yielded, i)
    /\ results' = Append(results, fresult[i])
    /\ UNCHANGED <<futures, fresult, peer, wtask, poolpc,
                   runVars, ledgerVars, sockVars, stressVars, auxVars>>

\* lines 110-111: as_completed yields a resolved future once, the main
\* thread appends its result
Collect(i) ==
    /\ poolpc = "collect"
    /\ i \in 1..Len(futures) /\ futures[i] = "done" /\ ~InYield(i)
    /\ yielded' = Append(yielded, i)
    /\ results' = Append(results, fresult[i])
    /\ UNCHANGED <<futures, fresult, peer, wtask, poolpc,
                   runVars, ledgerVars, sockVars, stressVars, auxVars>>

\* lines 111-118: every future was yielded, the with block is left and the
\* results are analysed
Analyse ==
    /\ poolpc = "collect"
    /\ Len(yielded) = Len(futures)
    /\ \A w \in Workers : wtask[w] = 0
    /\ poolpc' = "analysed"
    /\ UNCHANGED <<futures, fresult, peer, wtask, yielded, results,
                   runVars, ledgerVars, sockVars, stressVars, auxVars>>

NextPerf ==
    \/ \E s \in PerfServers : Submit(s)
    \/ StartCollect
    \/ \E w \in Workers : Take(w)
    \/ \E w \in Workers, c \in {1, MaxSplit, MaxStream} : Finish(w, c)
    \/ \E i \in Requests : Collect(i)
    \/ Analyse

SpecPerf == InitPerf /\ [][NextPerf]_vars

-----------------------------------------------------------------------------
(* StressTester.make_request and concurrent_requests_test                  *)

Threads == 1..NumThreads
HTTPWord == <<"H", "T", "T", "P">>

\* lines 35-55: what make_request does against peer s, whose first recv
\* returns s.stream: the value returned, and whether socket.timeout was
\* raised (which counts a timeout under the lock before returning False)
MakeRequest(s) ==
    IF s.conn = "timeout" THEN [ok |-> FALSE, timeout |-> TRUE]
    ELSE IF s.conn # "ok" \/ s.send # "ok" THEN [ok |-> FALSE, timeout |-> FALSE]
    ELSE IF s.stream = <<>> /\ s.end = "silent" THEN [ok |-> FALSE, timeout |-> TRUE]
    ELSE IF s.stream = <<>> /\ s.end = "reset" THEN [ok |-> FALSE, timeout |-> FALSE]
    ELSE [ok |-> s.stream # <<>> /\ Contains(s.stream, HTTPWord), timeout |-> FALSE]

StressServers == <<
    Peer("ok", "ok", Resp200, "close"),
    Peer("ok", "ok", <<>>, "silent"),
    Peer("refused", "ok", <<>>, "close"),
    Peer("ok", "ok", Junk, "close") >>

\* how the server answers request k of thread t: one fixed behaviour per
\* run, or a behaviour that varies with the thread or with the request
AnswerPlans ==
    {[t \in Threads |-> [k \in 1..ReqPerThread |-> StressServers[p]]] : p \in 1..4}
    \cup {[t \in Threads |-> [k \in 1..ReqPerThread |-> StressServers[((t + o) % 4) + 1]]]
             : o \in 0..3}
    \cup {[t \in Threads |-> [k \in 1..ReqPerThread |-> StressServers[((k + o) % 4) + 1]]]
             : o \in 0..3}
    \cup {[t \in Threads |-> [k \in 1..ReqPerThread |-> StressServers[((t + k + o) % 2) + 1]]]
             : o \in 0..1}

InitStress ==
    /\ catalog = <<>> /\ RunIdle /\ PerfIdle /\ AuxIdle
    /\ answers \in AnswerPlans
    /\ tpc = [t \in Threads |-> "new"]
    /\ tdone = [t \in Threads |-> 0]
    /\ treg = [t \in Threads |-> 0]
    /\ tkind = [t \in Threads |-> "none"]
    /\ lock = NoThread
    /\ success_count \in {0, 1} /\ failure_count \in {0, 1} /\ timeout_count = 0
    /\ mainpc = "reset"

Counter(k) == CASE k = "success" -> success_count
                [] k = "failure" -> failure_count
                [] k = "timeout" -> timeout_count

\* lines 63-65: the counters left by an earlier test are reset
ResetCounters ==
    /\ mainpc = "reset"
    /\ success_count' = 0 /\ failure_count' = 0 /\ timeout_count' = 0
    /\ mainpc' = "spawn"
    /\ UNCHANGED <<answers, tpc, tdone, treg, tkind, lock,
                   runVars, ledgerVars, sockVars, perfVars, auxVars>>

\* lines 79-82: thread.start(), in thread order
Spawn(t) ==
    /\ mainpc = "spawn"
    /\ tpc[t] = "new" /\ \A u \in 1..(t - 1) : tpc[u] # "new"
    /\ tpc' = [tpc EXCEPT ![t] = "request"]
    /\ mainpc' = IF t = NumThreads THEN "join" ELSE "spawn"
    /\ UNCHANGED <<answers, tdone, treg, tkind, lock, success_count, failure_count,
                   timeout_count, runVars, ledgerVars, sockVars, perfVars, auxVars>>

\* lines 68-74 and 35-55: the worker calls make_request and picks the counter
Request(t) ==
    /\ tpc[t] = "request"
    /\ LET r == MakeRequest(answers[t][tdone[t] + 1])
       IN tkind' = [tkind EXCEPT ![t] = IF r.timeout THEN "timeout"
                                         ELSE IF r.ok THEN "success" ELSE "failure"]
    /\ tpc' = [tpc EXCEPT ![t] = "acquire"]
    /\ UNCHANGED <<answers, tdone, treg, lock, success_count, failure_count,
                   timeout_count, mainpc, runVars, ledgerVars, sockVars, perfVars, auxVars>>

\* a `with self.lock` that enters without waiting for the lock
Acquire_NoExclusion(t) ==
    /\ tpc[t] = "acquire"
    /\ lock' = t
    /\ tpc' = [tpc EXCEPT ![t] = "load"]
    /\ UNCHANGED <<answers, tdone, treg, tkind, success_count, failure_count,
                   timeout_count, mainpc, runVars, ledgerVars, sockVars, perfVars, auxVars>>

\* lines 51, 70, 73: `with self.lock:` blocks until the lock is free
Acquire(t) ==
    /\ tpc[t] = "acquire"
    /\ lock = NoThread
    /\ lock' = t
    /\ tpc' = [tpc EXCEPT ![t] = "load"]
    /\ UNCHANGED <<answers, tdone, treg, tkind, success_count, failure_count,
                   timeout_count, mainpc, runVars, ledgerVars, sockVars, perfVars, auxVars>>

\* lines 52, 71, 74: `+= 1` first loads the attribute ...
Load(t) ==
    /\ tpc[t] = "load"
    /\ treg' = [treg EXCEPT ![t] = Counter(tkind[t])]
    /\ tpc' = [tpc EXCEPT ![t] = "store"]
    /\ UNCHANGED <<answers, tdone, tkind, lock, success_count, failure_count,
                   timeout_count, mainpc, runVars, ledgerVars, sockVars, perfVars, auxVars>>

\* ... then stores the sum and leaves the with block; after a counted
\* timeout make_request returns False and the worker counts a failure
Store(t) ==
    /\ tpc[t] = "store"
    /\ success_count' = IF tkind[t] = "success" THEN treg[t] + 1 ELSE success_count
    /\ failure_count' = IF tkind[t] = "failure" THEN treg[t] + 1 ELSE failure_count
    /\ timeout_count' = IF tkind[t] = "timeout" THEN treg[t] + 1 ELSE timeout_count
    /\ lock' = NoThread
    /\ IF tkind[t] = "timeout"
       THEN /\ tkind' = [tkind EXCEPT ![t] = "failure"]
            /\ tpc' = [tpc EXCEPT ![t] = "acquire"]
            /\ UNCHANGED tdone
       ELSE /\ tkind' = [tkind EXCEPT ![t] = "none"]
            /\ tdone' = [tdone EXCEPT ![t] = @ + 1]
            /\ tpc' = [tpc EXCEPT ![t] = IF tdone[t] + 1 = ReqPerThread
                                         THEN "finished" ELSE "request"]
    /\ UNCHANGED <<answers, treg, mainpc, runVars, ledgerVars, sockVars, perfVars, auxVars>>

\* lines 84-88: every thread was joined, total = success + failure
Join ==
    /\ mainpc = "join"
    /\ \A t \in Threads : tpc[t] = "finished"
    /\ mainpc' = "report"
    /\ UNCHANGED <<answers, tpc, tdone, treg, tkind, lock, success_count, failure_count,
                   timeout_count, runVars, ledgerVars, sockVars, perfVars, auxVars>>

NextStress ==
    \/ ResetCounters
    \/ \E t \in Threads : Spawn(t)
    \/ \E t \in Threads : Request(t)
    \/ \E t \in Threads : Acquire(t)
    \/ \E t \in Threads : Load(t)
    \/ \E t \in Threads : Store(t)
    \/ Join

SpecStress == InitStress /\ [][NextStress]_vars

-----------------------------------------------------------------------------
(* Properties of the comprehensive runner (specification Spec)             *)

AddPcs == {"add_count", "add_append", "add_cat", "add_tally"}
EntriesFor(i) == {k \in 1..Len(tests) : tests[k].name = i}
CountOf(v) == Cardinality({k \in 1..Len(tests) : tests[k].verdict = v})
CountIn(c, v) == Cardinality({k \in 1..Len(tests) :
                                tests[k].verdict = v /\ tests[k].category = c})
\* test_status has judged the case at idx and is recording the outcome
Judged == pc \in AddPcs /\ phase = "running" /\ catalog[idx].kind = "test"
\* the outcome being recorded has been appended to the ledger
Appended == pc \in {"add_cat", "add_tally"}
LastEntry == tests[Len(tests)]

\* tallies and entries agree
LedgerConsistent ==
    /\ passed = CountOf("PASS") /\ failed = CountOf("FAIL") /\ skipped = CountOf("SKIP")
    /\ \A k \in 1..Len(tests) : tests[k].category \in DOMAIN category_stats
    /\ \A c \in DOMAIN category_stats :
          /\ category_stats[c].passed  = CountIn(c, "PASS")
          /\ category_stats[c].failed  = CountIn(c, "FAIL")
          /\ category_stats[c].skipped = CountIn(c, "SKIP")

\* C1: when a run that was neither cancelled nor refused by the connectivity
\* check has ended, every case of the catalog has exactly one ledger entry.
C1_EveryCaseExactlyOnce ==
    (pc = "done" /\ cause \in {"completed", "error"})
        => \A i \in 1..Len(catalog) : Cardinality(EntriesFor(i)) = 1

\* C2: for a present status the matcher records Pass when it equals the
\* expected status, Pass when it is one of the alternatives, and otherwise
\* Fail carrying the expected and the actual status.
C2_MatcherVerdict ==
    (Judged /\ ret.status # None) =>
        LET c == catalog[idx] IN
        /\ ret.status = c.expected => adding.verdict = "PASS"
        /\ (ret.status \in c.alts /\ ret.status # c.expected) => adding.verdict = "PASS"
        /\ ret.status \notin (c.alts \cup {c.expected}) =>
              /\ adding.verdict = "FAIL"
              /\ adding.expected = c.expected /\ adding.got = ret.status
        /\ Appended => LastEntry = adding

C2_Witness ==
    /\ Judged /\ Appended /\ LastEntry.verdict = "PASS"
    /\ ret.status # catalog[idx].expected /\ ret.status \in catalog[idx].alts

\* C3: an absent status is always recorded as Fail with a non-empty message
\* that starts with "No response: ", for every expected status and every
\* alternatives set; never as Pass or Skip.
C3_AbsentStatusFails ==
    (Judged /\ ret.status = None) =>
        /\ adding.verdict = "FAIL"
        /\ adding.message = <<"No response: ">> \o ret.body
        /\ adding.expected = catalog[idx].expected /\ adding.got = AbsentGot
        /\ Appended => (LastEntry = adding /\ failed >= 1)

C3_Witness ==
    /\ Judged /\ pc = "add_tally" /\ ret.status = None
    /\ LastEntry.verdict = "FAIL" /\ catalog[idx].alts # {}

\* the message recorded for exception e = <<call, kind>>
FailText(e) ==
    <<"No response: ">> \o
        CASE e[2] = "refused" -> <<"Connection refused - is the server running?">>
          [] e[2] = "timeout" -> <<"timed out">>
          [] e[2] = "error"   -> <<"[Errno 32] Broken pipe">>
          [] e[2] = "reset"   -> <<"[Errno 104] Connection reset by peer">>
          [] e[2] = "value"   -> <<"invalid literal for int() with base 10">>

C5_SkipRecorded ==
    \A i \in attempted :
        (catalog[i].kind = "skip" /\ ~(idx = i /\ pc \in AddPcs)) =>
            /\ \E k \in 1..Len(tests) :
                  /\ EntriesFor(i) = {k}
                  /\ tests[k].verdict = "SKIP"
                  /\ tests[k].message = catalog[i].reason
            /\ catalog[i].category \in DOMAIN category_stats
            /\ category_stats[catalog[i].category].skipped >= 1
            /\ cause # "error"

\* C6: a run that has ended without cancellation and without a failed
\* connectivity check has attempted every case of the catalog.
C6_EndsOnlyAfterAllCases ==
    (pc = "done" /\ cause \notin {"interrupt", "precheck"} /\ exitCode # 130)
        => attempted = 1..Len(catalog)

\* C7: when the connectivity check gets no status, run_all_tests returns 1,
\* no case is started and the ledger stays empty.
C7_PrecheckFatal ==
    (phase \notin {"idle", "precheck"} /\ preStatus = None) =>
        /\ phase = "done" /\ exitCode = 1
        /\ attempted = {} /\ tests = <<>>
        /\ passed = 0 /\ failed = 0 /\ skipped = 0
        /\ category_stats = EmptyStats

C7_Witness == phase = "done" /\ preStatus = None /\ Len(catalog) > 0 /\ conns > 0

\* C8: the ledger a cancelled run returns is well formed: tallies and
\* entries agree.
C8_WellFormedAfterInterrupt ==
    (pc = "done" /\ cause = "interrupt") => LedgerConsistent

\* the test_status calls started so far
TestsAttempted == {i \in attempted : catalog[i].kind = "test"}
\* send_request is running or has returned, and its case has no entry yet
InFlightNoEntry == pc \in {"sr_connect", "sr_send", "sr_recv", "sr_close", "judge",
                           "add_count", "add_append"}
ConnectFailTexts == {FailText(<<"connect", "refused">>), FailText(<<"connect", "timeout">>)}
\* the cases whose connect failed
FailedConnects ==
    Cardinality({k \in 1..Len(tests) : tests[k].message \in ConnectFailTexts})
    + (IF InFlightNoEntry /\ (\E e \in raised : e[1] = "connect") THEN 1 ELSE 0)
\* after the connectivity check's connection, every case that was started
\* has opened one connection, unless its connect failed or is still to come;
\* no connection is carried from one case to the next
OneConnectionEach ==
    phase = "running" =>
        /\ conns - 1 = Cardinality(TestsAttempted) - FailedConnects
                          - (IF pc = "sr_connect" THEN 1 ELSE 0)
        /\ pc = "next" => server = NoServer

\* C17: each case that is not skipped opens exactly one connection of its
\* own, none is reused for a later case, and a call never connects a second
\* time after a failed connect, send or read.
C17_OneConnectionPerCase ==
    [][/\ OneConnectionEach'
       /\ pc \in {"sr_send", "sr_recv", "sr_close"} => pc' # "sr_connect"
       /\ (pc = "sr_connect" /\ pc' = "sr_connect") => UNCHANGED conns]_vars

C17_Witness ==
    /\ pc = "next" /\ phase = "running" /\ Len(tests) = 2
    /\ tests[1].message \in ConnectFailTexts /\ conns = 2

-----------------------------------------------------------------------------
(* Properties of the read loop and the parser (specification SpecFrame)    *)

\* how the recv loop of send_request was left, in the terms of the framing
\* outcomes; meaningful at pc = "sr_close" (lines 189-203)
FramingOutcome ==
    IF <<"recv", "timeout">> \in raised THEN "TimedOut"
    ELSE IF OverCeiling(response, bulk) \/ NoBodyHeuristic(response, bulk)
         THEN "CompleteByHeuristic"
         ELSE "CompleteByClose"

\* the header block and the body of a response, split at the first CRLFCRLF
HeaderBlock(b) == IF Contains(b, CRLFCRLF) THEN SplitOnce(b, CRLFCRLF)[1] ELSE b
BodyBytes(b)   == IF Contains(b, CRLFCRLF) THEN SplitOnce(b, CRLFCRLF)[2] ELSE <<>>

\* the lines of a header block
RECURSIVE HeaderLines(_)
HeaderLines(h) ==
    IF Contains(h, <<CR, LF>>)
    THEN <<SplitOnce(h, <<CR, LF>>)[1]>> \o HeaderLines(SplitOnce(h, <<CR, LF>>)[2])
    ELSE <<h>>

\* the values of the numeric Content-Length headers of a response
DeclaredLengths(b) ==
    LET ls == HeaderLines(HeaderBlock(b))
        val(l) == Strip(SubSeq(l, Len(ContentLengthName) + 1, Len(l)))
    IN {ToInt(val(ls[i])) : i \in {j \in 1..Len(ls) :
            /\ StartsWith(ls[j], ContentLengthName)
            /\ IsDigit(val(ls[j])) /\ ~IntRaises(val(ls[j]))}}
TheLength(b) == CHOOSE l \in DeclaredLengths(b) : TRUE

\* the response declares Transfer-Encoding: chunked
IsChunked(b) ==
    LET ls == HeaderLines(HeaderBlock(b))
    IN \E i \in 1..Len(ls) : ls[i] = TransferChunked

\* the payloads of a chunked body, up to the zero-size chunk
RECURSIVE Dechunk(_)
Dechunk(b) ==
    IF ~Contains(b, <<CR, LF>>) THEN <<>>
    ELSE LET size == SplitOnce(b, <<CR, LF>>)[1]
             rest == SplitOnce(b, <<CR, LF>>)[2]
         IN IF ~IsDigit(size) \/ IntRaises(size) \/ ToInt(size) = 0 THEN <<>>
            ELSE SubSeq(rest, 1, ToInt(size))
                 \o Dechunk(SubSeq(rest, ToInt(size) + 3, Len(rest)))

\* the status token of a response and whether it is a decimal number
StatusToken(b) ==
    LET parts == SplitWS(FirstLine(Decode(b)))
    IN IF Len(parts) >= 2 THEN parts[2] ELSE <<>>
StatusParses(b) ==
    StatusToken(b) # <<>> /\ \A i \in 1..Len(StatusToken(b)) : StatusToken(b)[i] \in Digits

\* C11: when the response carries one numeric Content-Length L, the read
\* ends after exactly L body bytes (HELLO of HELLOEXTRA for L = 5) with
\* outcome CompleteByLength, however the bytes are split across reads, and
\* the body handed back has L bytes.
C11_FramedByLength ==
    LET lengthFramed == Cardinality(DeclaredLengths(fixture.stream)) = 1
        L == TheLength(fixture.stream)
    IN /\ (pc = "sr_close" /\ lengthFramed) =>
             /\ FramingOutcome = "CompleteByLength"
             /\ Len(BodyBytes(response)) = L
       /\ (pc = "judge" /\ lengthFramed /\ ret.status # None) => Len(ret.body) = L

\* C12: when the response carries two Content-Length headers with differing
\* values, the outcome of the read is Malformed.
C12_ConflictingLengthsMalformed ==
    (pc = "sr_close" /\ Cardinality(DeclaredLengths(fixture.stream)) > 1) =>
        FramingOutcome = "Malformed"

\* C13: when the response has no Content-Length and declares
\* Transfer-Encoding: chunked, the outcome is CompleteByChunked and the body
\* handed back is the concatenation of the chunk payloads (Hello).
C13_ChunkedDecoded ==
    LET chunked == DeclaredLengths(fixture.stream) = {} /\ IsChunked(fixture.stream)
    IN /\ (pc = "sr_close" /\ chunked) => FramingOutcome = "CompleteByChunked"
       /\ (pc = "judge" /\ chunked /\ ret.status # None) =>
             ret.body = Dechunk(BodyBytes(fixture.stream))

\* C14: when the response has neither Content-Length nor chunking and the
\* peer closes after the body, the read ends as CompleteByClose, never
\* TimedOut, holding every byte sent, so that the body is exactly the bytes
\* after the header terminator.
C14_CloseTerminated ==
    (/\ pc = "sr_close" /\ fixture.end = "close"
     /\ DeclaredLengths(fixture.stream) = {} /\ ~IsChunked(fixture.stream)) =>
        /\ FramingOutcome = "CompleteByClose"
        /\ response = fixture.stream

\* the result carries a truncation mark that is set
MarkedTruncated(r) == "truncated" \in DOMAIN r /\ r.truncated

\* C15: against an endless stream the read stops once the ceiling is
\* exceeded, having accumulated at most the ceiling plus one read, and the
\* result it returns is marked truncated.
C15_CeilingMarksTruncated ==
    [][/\ ByteLen(response') + bulk' <= ByteCeiling + RecvSize
       /\ (pc = "sr_close" /\ OverCeiling(response, bulk)) => MarkedTruncated(ret')]_vars

C18_ParserNeverRaises ==
    [][/\ cause' # "error"
       /\ (pc = "sr_close") =>
             /\ pc' = "judge"
             /\ ret'.status = IF StatusParses(response)
                              THEN ToInt(StatusToken(response)) ELSE None]_vars

C18_Witness ==
    /\ pc = "judge" /\ <<"parse", "value">> \in raised /\ ret.status = None
    /\ fixture.stream = SupStatus

\* C19: every run of the same case against the same fixture records the
\* same outcome: same verdict, same actual status, same message.
C19_SameOutcomeOnRerun ==
    \A j, k \in 1..Len(tests) :
        /\ tests[j].verdict = tests[k].verdict
        /\ tests[j].got = tests[k].got
        /\ tests[j].message = tests[k].message

\* C20: when the timeout elapses after some bytes were received, the read
\* hands exactly the bytes received to the parser, none discarded, so a
\* status line that arrived is still reported.
C20_TimeoutKeepsBytes ==
    /\ (pc = "sr_close" /\ <<"recv", "timeout">> \in raised) => response = fixture.stream
    /\ (pc = "judge" /\ <<"recv", "timeout">> \in raised /\ StatusParses(fixture.stream)) =>
          /\ ret.status = ToInt(StatusToken(fixture.stream))
          /\ ret.headers = Decode(HeaderBlock(fixture.stream))
          /\ ret.body = Decode(BodyBytes(fixture.stream))

C20_Witness ==
    /\ pc = "judge" /\ <<"recv", "timeout">> \in raised
    /\ fixture.stream = Partial /\ ret.status = 200

-----------------------------------------------------------------------------
(* Properties of timeouts, completion heuristics and the parser            *)

\* the recv loop of the current call was left by a socket.timeout
RecvTimedOut == <<"recv", "timeout">> \in raised

C22_ReadWithinBudget ==
    pc \in {"sr_recv", "sr_close"} => elapsed <= TimeoutBudget

\* the statuses that never carry a body
NoBodyStatuses == {204, 304}
\* the response declares neither a length nor chunking
Undeclared(b) == DeclaredLengths(b) = {} /\ ~IsChunked(b)

\* C23: without Content-Length and chunking, a response whose status is 204
\* or 304 is complete at the header terminator (CompleteByHeuristic, nothing
\* read past it, no wait for EOF or timeout); with any other status the read
\* goes on until EOF or timeout (or the ceiling).
C23_NoBodyStatusCompletes ==
    (/\ pc = "sr_close" /\ Undeclared(fixture.stream)
     /\ Contains(fixture.stream, CRLFCRLF) /\ StatusParses(fixture.stream)) =>
        IF ToInt(StatusToken(fixture.stream)) \in NoBodyStatuses
        THEN /\ FramingOutcome = "CompleteByHeuristic"
             /\ response = HeaderBlock(fixture.stream) \o CRLFCRLF
        ELSE \/ FramingOutcome \in {"CompleteByClose", "TimedOut"}
             \/ OverCeiling(response, bulk)

HexDigits == Digits \cup {"a", "b", "c", "d", "e", "f", "A", "B", "C", "D", "E", "F"}
\* the first chunk-size line of the body is not a hexadecimal number
BadChunkSize(b) ==
    LET body == BodyBytes(b)
        size == IF Contains(body, <<CR, LF>>) THEN SplitOnce(body, <<CR, LF>>)[1] ELSE body
    IN size = <<>> \/ \E i \in 1..Len(size) : size[i] \notin HexDigits

\* C24: a chunked response whose chunk-size line is malformed ends the read
\* at once with outcome Malformed, without waiting for further bytes.
C24_BadChunkSizeMalformed ==
    (/\ pc = "sr_close" /\ DeclaredLengths(fixture.stream) = {}
     /\ IsChunked(fixture.stream) /\ BadChunkSize(fixture.stream)) =>
        /\ FramingOutcome = "Malformed"
        /\ ~RecvTimedOut

\* C25: when the peer stays silent before it has sent a status line (a line
\* ended by LF), the read ends as TimedOut, never as complete, and the actual
\* status is absent.
C25_NoStatusLineTimesOut ==
    LET noLine == fixture.end = "silent" /\ ~Contains(fixture.stream, <<LF>>)
    IN /\ (pc = "sr_close" /\ noLine) => FramingOutcome = "TimedOut"
       /\ (pc = "judge" /\ noLine) => ret.status = None

\* C26: when the bytes accumulated without a header terminator have grown
\* past every header size that could be configured (they have passed even
\* the ceiling of the whole response), the outcome is Malformed.
C26_OversizedHeaderMalformed ==
    (/\ pc = "sr_close" /\ OverCeiling(response, bulk)
     /\ ~Contains(response, CRLFCRLF) /\ ~Contains(response, LFLF)) =>
        FramingOutcome = "Malformed"

\* C27: a refused connection is recorded as Fail with a message of its own,
\* which no case that met a timeout (of connect or of recv) carries.
C27_RefusedDistinctFromTimeout ==
    Judged =>
        /\ <<"connect", "refused">> \in raised =>
              /\ adding.verdict = "FAIL"
              /\ adding.message = FailText(<<"connect", "refused">>)
        /\ (\E e \in raised : e[2] = "timeout") =>
              adding.message # FailText(<<"connect", "refused">>)

C27_Witness ==
    /\ Judged /\ pc = "add_tally" /\ <<"connect", "refused">> \in raised
    /\ Len(tests) = 2 /\ tests[1].message = FailText(<<"connect", "timeout">>)
    /\ tests[2].message = FailText(<<"connect", "refused">>)

\* where the earliest header terminator of s starts (0 when there is none),
\* and the parts before and after it
TerminatorAt(s) ==
    LET i == IndexOf(s, CRLFCRLF)
        j == IndexOf(s, LFLF)
    IN IF i = 0 THEN j ELSE IF j = 0 THEN i ELSE IF i < j THEN i ELSE j
TerminatorLen(s) ==
    IF IndexOf(s, CRLFCRLF) = TerminatorAt(s) THEN Len(CRLFCRLF) ELSE Len(LFLF)
HeadPart(s) == IF TerminatorAt(s) = 0 THEN s ELSE SubSeq(s, 1, TerminatorAt(s) - 1)
BodyPart(s) == IF TerminatorAt(s) = 0 THEN <<>>
               ELSE SubSeq(s, TerminatorAt(s) + TerminatorLen(s), Len(s))

\* C28: the parser splits the bytes read at the earliest header terminator,
\* be it CRLF CRLF or LF LF, also when the other form occurs later in the
\* body.
C28_SplitsAtEarliestTerminator ==
    [][(pc = "sr_close" /\ <<"parse", "value">> \notin raised') =>
          /\ ret'.headers = HeadPart(Decode(response))
          /\ ret'.body = BodyPart(Decode(response))]_vars

-----------------------------------------------------------------------------
(* Properties of HTTPTester's header lookup (specification SpecHt)         *)

\* name and value of a header line, and the lines whose name is `name`
NameOf(line)  == Lower(Strip(SplitOnce(line, Colon)[1]))
ValueOf(line) == Strip(SplitOnce(line, Colon)[2])
Matching(ls, name) ==
    {i \in 1..Len(ls) : Contains(ls[i], Colon) /\ NameOf(ls[i]) = Lower(name)}
\* the header lines the fixture sent
SentLines == HeaderLines(Decode(HeaderBlock(fixture.stream)))

-----------------------------------------------------------------------------
(* The ledger after the run (specification Spec)                           *)

\* C30: once the run has left its try block, the summary and the saved
\* report only read the ledger: no counter, entry or tally changes.
C30_LedgerFrozenAfterRun ==
    [][(phase \in {"summary", "done", "crashed"}) =>
          UNCHANGED <<passed, failed, skipped, tests, category_stats>> ]_vars

C30_Witness ==
    /\ pc = "done" /\ phase = "done" /\ cause = "completed"
    /\ Len(tests) = Len(catalog) /\ failed >= 1 /\ exitCode = 1

\* the sum of one field over all category tallies
RECURSIVE TallySum(_, _)
TallySum(cats, f) ==
    IF cats = {} THEN 0
    ELSE LET c == CHOOSE x \in cats : TRUE
         IN category_stats[c][f] + TallySum(cats \ {c}, f)
\* counters, entries and category tallies agree
TotalsAgree ==
    /\ passed + failed + skipped = Len(tests)
    /\ passed  = TallySum(DOMAIN category_stats, "passed")
    /\ failed  = TallySum(DOMAIN category_stats, "failed")
    /\ skipped = TallySum(DOMAIN category_stats, "skipped")

\* C31: whenever no add_pass/add_fail/add_skip call is under way, passed +
\* failed + skipped is the number of entries and each counter is the sum of
\* its field over the category tallies; entries are only appended, never
\* removed or rewritten, and counters never decrease.
C31_LedgerInvariant ==
    [][/\ (pc' \notin AddPcs) => TotalsAgree'
       /\ Len(tests') >= Len(tests) /\ SubSeq(tests', 1, Len(tests)) = tests
       /\ passed' >= passed /\ failed' >= failed /\ skipped' >= skipped]_vars

\* C32: run_all_tests returns 0 exactly when the ledger holds no Fail entry,
\* returns 0 only when every case of the catalog was attempted, and never
\* returns 0 for a run cut short by an interrupt or an internal error.
C32_ExitCodeReflectsRun ==
    (pc = "done" /\ phase = "done" /\ cause # "precheck") =>
        /\ exitCode = 0 <=> CountOf("FAIL") = 0
        /\ exitCode = 0 => attempted = 1..Len(catalog)
        /\ cause \in {"interrupt", "error"} => exitCode # 0

-----------------------------------------------------------------------------
(* Properties of concurrent_requests_test (specification SpecPerf)         *)

Answers200(s) == s.conn = "ok" /\ s.send = "ok" /\ s.stream = Resp200

\* C9: the results of N concurrent requests hold exactly one entry per
\* request, no duplicate and none missing, under every interleaving of the
\* pool workers; every request the server answers with 200 is a successful
\* entry with status 200, so N such requests give N successful entries.
C9_OneResultPerRequest ==
    /\ Len(results) = Len(yielded)
    /\ \A k \in 1..Len(yielded) :
          /\ yielded[k] \in 1..Len(futures)
          /\ futures[yielded[k]] = "done"
          /\ results[k] = fresult[yielded[k]]
          /\ \A j \in 1..Len(yielded) : yielded[j] = yielded[k] => j = k
    /\ poolpc = "analysed" =>
          /\ Len(results) = NumRequests
          /\ \A i \in Requests : InYield(i)
          /\ \A k \in 1..Len(results) :
                Answers200(peer[yielded[k]]) =>
                    (results[k].success /\ results[k].status_code = 200)

C9_Witness ==
    /\ poolpc = "analysed"
    /\ \A i \in Requests : Answers200(peer[i])
    /\ \A k \in 1..Len(results) : results[k].success /\ results[k].status_code = 200
    /\ yielded[1] # 1

-----------------------------------------------------------------------------
(* Properties of StressTester.concurrent_requests_test (SpecStress)        *)

AllSlots == {<<t, k>> : t \in Threads, k \in 1..ReqPerThread}
Outcome(x) == MakeRequest(answers[x[1]][x[2]])
OkSlots      == Cardinality({x \in AllSlots : Outcome(x).ok})
FailureSlots == Cardinality({x \in AllSlots : ~Outcome(x).ok})
TimeoutSlots == Cardinality({x \in AllSlots : Outcome(x).timeout})

\* C10: the lock makes the increments atomic: at most one thread is inside
\* a locked += at a time, and once every worker is joined the counters are
\* determined by the server's answers alone, whatever the interleaving:
\* success + failure = num_threads * requests_per_thread, no update lost.
C10_NoLostUpdate ==
    /\ \A t, u \in Threads :
          (tpc[t] \in {"load", "store"} /\ tpc[u] \in {"load", "store"}) => t = u
    /\ mainpc = "report" =>
          /\ success_count + failure_count = NumThreads * ReqPerThread
          /\ success_count = OkSlots
          /\ failure_count = FailureSlots
          /\ timeout_count = TimeoutSlots

C10_Witness ==
    /\ mainpc = "report"
    /\ success_count > 0 /\ failure_count > 0 /\ timeout_count > 0
    /\ success_count + failure_count = NumThreads * ReqPerThread

-----------------------------------------------------------------------------
(* run_all_tests.py: the master runner                                     *)

Suite(script, description) == [script |-> script, description |-> description]

Comprehensive == Suite("comprehensive_tester.py", "Comprehensive HTTP Tester (1000+ tests)")
RfcCompliance == Suite("rfc_compliance_tester.py", "RFC Compliance & Edge Cases")
Performance   == Suite("performance_tester.py", "Performance & Load Testing")
Original      == Suite("status_code_tester.py", "Original Status Code Tester")

\* lines 118-138: the list the flags select
SuiteLists ==
    { <<Comprehensive>>, <<RfcCompliance>>, <<Performance>>, <<Original>>,
      <<Comprehensive, RfcCompliance>>,
      <<Comprehensive, RfcCompliance, Performance, Original>> }

\* what happens to one run_tester call: the script is missing, the child
\* exits with 0 or with another code, or subprocess.run raises
SuiteOutcomes == {"missing", "zero", "nonzero", "interrupted", "error"}

\* lines 32-57: the value run_tester returns
RunTesterCode(o) == IF o = "zero" THEN 0 ELSE 1

\* lines 152-169: the value main returns after the summary
MasterExit(res) ==
    IF \A k \in 1..Len(res) : res[k][2] = 0 THEN 0 ELSE 1

InitMaster ==
    /\ catalog = <<>> /\ RunIdle /\ PerfIdle /\ StressIdle
    /\ LoadIdle /\ ReuseIdle /\ KeepIdle
    /\ \E l \in SuiteLists :
          master = [pc |-> "connect", tests |-> l, results |-> <<>>,
                    launched |-> <<>>, cause |-> "none", ret |-> NoExit]

\* lines 102-111: the connectivity check; any exception returns 1
MasterConnect(ok) ==
    /\ master.pc = "connect"
    /\ master' = IF ok THEN [master EXCEPT !.pc = "loop"]
                 ELSE [master EXCEPT !.pc = "done", !.cause = "connect", !.ret = 1]
    /\ UNCHANGED <<runVars, ledgerVars, sockVars, perfVars, stressVars, load, reuse, keep>>

\* a loop that gives up after the first suite that did not return 0
RunSuite_StopOnFailure(o) ==
    /\ master.pc = "loop"
    /\ Len(master.results) < Len(master.tests)
    /\ LET t == master.tests[Len(master.results) + 1]
           r == RunTesterCode(o)
       IN master' = [master EXCEPT
              !.results  = Append(@, <<t.description, r>>),
              !.launched = IF o = "missing" THEN @ ELSE Append(@, t.script),
              !.pc       = IF r # 0 THEN "summary" ELSE "loop"]
    /\ UNCHANGED <<runVars, ledgerVars, sockVars, perfVars, stressVars, load, reuse, keep>>

\* lines 141-143 with 24-57: one iteration of the loop over tests:
\* run_tester, then results.append((description, result))
RunSuite(o) ==
    /\ master.pc = "loop"
    /\ Len(master.results) < Len(master.tests)
    /\ LET t == master.tests[Len(master.results) + 1]
           r == RunTesterCode(o)
       IN master' = [master EXCEPT
              !.results  = Append(@, <<t.description, r>>),
              !.launched = IF o = "missing" THEN @ ELSE Append(@, t.script)]
    /\ UNCHANGED <<runVars, ledgerVars, sockVars, perfVars, stressVars, load, reuse, keep>>

\* line 141: the list is exhausted
MasterLoopEnd ==
    /\ master.pc = "loop"
    /\ Len(master.results) = Len(master.tests)
    /\ master' = [master EXCEPT !.pc = "summary"]
    /\ UNCHANGED <<runVars, ledgerVars, sockVars, perfVars, stressVars, load, reuse, keep>>

\* lines 146-169: the final summary and the return value
MasterSummary ==
    /\ master.pc = "summary"
    /\ master' = [master EXCEPT !.pc = "done", !.cause = "finished",
                                !.ret = MasterExit(master.results)]
    /\ UNCHANGED <<runVars, ledgerVars, sockVars, perfVars, stressVars, load, reuse, keep>>

\* lines 171-178: a KeyboardInterrupt or an exception raised in main's try
\* block outside run_tester's own try (between two suites, in the prints
\* of run_tester or of the summary) returns 1
MasterAbort(c) ==
    /\ master.pc \in {"loop", "summary"}
    /\ master' = [master EXCEPT !.pc = "done", !.cause = c, !.ret = 1]
    /\ UNCHANGED <<runVars, ledgerVars, sockVars, perfVars, stressVars, load, reuse, keep>>

NextMaster ==
    \/ \E ok \in BOOLEAN : MasterConnect(ok)
    \/ \E o \in SuiteOutcomes : RunSuite(o)
    \/ MasterLoopEnd
    \/ MasterSummary
    \/ \E c \in {"interrupt", "error"} : MasterAbort(c)

SpecMaster == InitMaster /\ [][NextMaster]_vars

-----------------------------------------------------------------------------
(* Properties of the master runner (SpecMaster)                            *)

\* result k belongs to suite k, and the scripts launched so far are, in
\* list order, the suites whose run_tester call got as far as subprocess.run
InListOrder ==
    /\ Len(master.results) <= Len(master.tests)
    /\ \A k \in 1..Len(master.results) :
          master.results[k][1] = master.tests[k].description
    /\ Len(master.launched) <= Len(master.results)
    /\ \A j \in 1..Len(master.launched) :
          \E k \in j..Len(master.results) : master.launched[j] = master.tests[k].script

EverySuiteRan ==
    /\ Len(master.results) = Len(master.tests)
    /\ master.ret = 0 <=> \A k \in 1..Len(master.results) : master.results[k][2] = 0

-----------------------------------------------------------------------------
(* Socket lifetime in ComprehensiveTester.send_request (Spec)              *)

\* C34: every socket opened for a case is closed before that case's
\* outcome is recorded, on every path (normal completion, EOF, read timeout,
\* byte ceiling, exceptions raised by connect, send or recv): while a case
\* is judged and recorded, and between two cases, no socket is open.
C34_SocketClosedBeforeOutcome ==
    (phase = "running" /\ pc \in ({"judge", "next"} \cup AddPcs)) => sock \notin OpenStates

\* C35: for a fixed sequence of response bytes followed by connection
\* close, the status code extracted by send_request, and hence the verdict,
\* is the same for every way of splitting the bytes into recv chunks: two
\* runs of one case against such a peer record the same status and verdict.
C35_StatusIndependentOfSplit ==
    fixture.end = "close" =>
        \A j, k \in 1..Len(tests) :
            (catalog[tests[j].name] = catalog[tests[k].name]) =>
                (tests[j].got = tests[k].got /\ tests[j].verdict = tests[k].verdict)

-----------------------------------------------------------------------------
(* StressTester.sustained_load_test and mixed_workload_test, as            *)
(* run_all_stress_tests calls them one after the other. Time advances in   *)
(* whole seconds.                                                          *)

RequestTimeout == 3          \* make_request(timeout=3.0)
SettleSleep    == 2          \* time.sleep(2)  # Let threads finish

\* worker threads per test (10 and 20 in the source) and the requests a
\* worker is followed for
NumLoadWorkers == 1
LoadRequests   == 2

LoadTests   == {"sustained", "mixed"}
LoadWorkers == LoadTests \X (1..NumLoadWorkers)

NoTotals == [success |-> Unset, failure |-> Unset]
NewWorker == [pc |-> "new", age |-> 0, done |-> 0, res |-> "none"]

InitLoad ==
    /\ catalog = <<>> /\ RunIdle /\ PerfIdle
    /\ MasterIdle /\ ReuseIdle /\ KeepIdle
    /\ answers = <<>> /\ tpc = <<>> /\ tdone = <<>> /\ treg = <<>> /\ tkind = <<>>
    /\ lock = NoThread /\ mainpc = "off"
    \* the counters concurrent_requests_test left behind
    /\ success_count \in {0, 1} /\ failure_count = 0 /\ timeout_count = 0
    /\ load = [pc |-> "reset", test |-> "sustained",
               running |-> [T \in LoadTests |-> FALSE],
               workers |-> [x \in LoadWorkers |-> NewWorker],
               slept |-> 0,
               started |-> [T \in LoadTests |-> 0],
               totals |-> [T \in LoadTests |-> NoTotals]]

LoadOther == <<runVars, ledgerVars, sockVars, perfVars, master, reuse, keep,
               answers, tpc, tdone, treg, tkind, lock, mainpc>>

\* lines 112-115 and 343-345: the counters are reset (mixed_workload_test
\* leaves timeout_count alone) and the test's own `running` is set
LoadReset ==
    /\ load.pc = "reset"
    /\ success_count' = 0 /\ failure_count' = 0
    /\ timeout_count' = IF load.test = "sustained" THEN 0 ELSE timeout_count
    /\ load' = [load EXCEPT !.running[load.test] = TRUE, !.pc = "spawn"]
    /\ UNCHANGED LoadOther

\* lines 129-134 and 364-369: the daemon threads are started
LoadSpawn ==
    /\ load.pc = "spawn"
    /\ load' = [load EXCEPT
          !.workers = [x \in LoadWorkers |->
                          IF x[1] = load.test THEN [@[x] EXCEPT !.pc = "check"] ELSE @[x]],
          !.pc = "monitor"]
    /\ UNCHANGED <<LoadOther, success_count, failure_count, timeout_count>>

\* lines 136-142 and 371-376: sleep(duration) returns (or is interrupted)
\* and running = False
LoadStop ==
    /\ load.pc = "monitor"
    /\ load' = [load EXCEPT !.running[load.test] = FALSE, !.pc = "settle", !.slept = 0]
    /\ UNCHANGED <<LoadOther, success_count, failure_count, timeout_count>>

\* lines 143-146 and 377-380: after sleep(2) the totals are read; no thread
\* is joined
LoadRead ==
    /\ load.pc = "settle"
    /\ load.slept = SettleSleep
    /\ load' = [load EXCEPT
          !.totals[load.test] = [success |-> success_count, failure |-> failure_count],
          !.pc = IF load.test = "sustained" THEN "between" ELSE "end"]
    /\ UNCHANGED <<LoadOther, success_count, failure_count, timeout_count>>

\* lines 410-413 of run_all_stress_tests: the tests between the two, which
\* use counters of their own, are over and mixed_workload_test is entered
LoadNextTest ==
    /\ load.pc = "between"
    /\ load' = [load EXCEPT !.test = "mixed", !.pc = "reset"]
    /\ UNCHANGED <<LoadOther, success_count, failure_count, timeout_count>>

\* lines 118-119 and 351-354: `while running:` and the call of make_request
WorkerCheck(x) ==
    /\ load.workers[x].pc = "check"
    /\ IF load.running[x[1]] /\ load.workers[x].done < LoadRequests
       THEN load' = [load EXCEPT !.workers[x].pc = "request", !.workers[x].age = 0,
                                 !.started[x[1]] = @ + 1]
       ELSE /\ ~load.running[x[1]]
            /\ load' = [load EXCEPT !.workers[x].pc = "exit"]
    /\ UNCHANGED <<LoadOther, success_count, failure_count, timeout_count>>

\* lines 35-55: make_request returns; a blocked recv raises socket.timeout
\* after RequestTimeout seconds, which is counted under the lock
WorkerAnswer(x, r) ==
    /\ load.workers[x].pc = "request"
    /\ r = "timeout" <=> load.workers[x].age = RequestTimeout
    /\ timeout_count' = IF r = "timeout" THEN timeout_count + 1 ELSE timeout_count
    /\ load' = [load EXCEPT !.workers[x].pc = "count", !.workers[x].res = r]
    /\ UNCHANGED <<LoadOther, success_count, failure_count>>

\* lines 119-125 and 354-360: the worker counts the request under the lock
WorkerCount(x) ==
    /\ load.workers[x].pc = "count"
    /\ IF load.workers[x].res = "ok"
       THEN success_count' = success_count + 1 /\ UNCHANGED failure_count
       ELSE failure_count' = failure_count + 1 /\ UNCHANGED success_count
    /\ load' = [load EXCEPT !.workers[x].pc = "check", !.workers[x].res = "none",
                            !.workers[x].done = @ + 1, !.workers[x].age = 0]
    /\ UNCHANGED <<LoadOther, timeout_count>>

\* one second passes: for the main thread asleep in sleep(2) and for every
\* request in flight; a request blocked for RequestTimeout seconds has
\* timed out before the next second
LoadTick ==
    /\ load.pc \in {"monitor", "settle", "between"}
    /\ load.pc = "settle" => load.slept < SettleSleep
    /\ \A x \in LoadWorkers :
          load.workers[x].pc = "request" => load.workers[x].age < RequestTimeout
    /\ \E x \in LoadWorkers : load.workers[x].pc = "request"
    /\ load' = [load EXCEPT
          !.slept = IF load.pc = "settle" THEN @ + 1 ELSE @,
          !.workers = [x \in LoadWorkers |->
                          IF @[x].pc = "request" THEN [@[x] EXCEPT !.age = @ + 1] ELSE @[x]]]
    /\ UNCHANGED <<LoadOther, success_count, failure_count, timeout_count>>

\* the main thread sleeps while no request is in flight
LoadSleep ==
    /\ load.pc = "settle"
    /\ load.slept < SettleSleep
    /\ \A x \in LoadWorkers : load.workers[x].pc # "request"
    /\ load' = [load EXCEPT !.slept = @ + 1]
    /\ UNCHANGED <<LoadOther, success_count, failure_count, timeout_count>>

NextLoad ==
    \/ LoadReset
    \/ LoadSpawn
    \/ LoadStop
    \/ LoadTick
    \/ LoadSleep
    \/ LoadRead
    \/ LoadNextTest
    \/ \E x \in LoadWorkers : WorkerCheck(x)
    \/ \E x \in LoadWorkers, r \in {"ok", "fail", "timeout"} : WorkerAnswer(x, r)
    \/ \E x \in LoadWorkers : WorkerCount(x)

SpecLoad == InitLoad /\ [][NextLoad]_vars

-----------------------------------------------------------------------------
(* Properties of the load tests (SpecLoad)                                 *)

TotalOf(T) == load.totals[T].success + load.totals[T].failure

\* C36: in sustained_load_test and mixed_workload_test, once the stop flag
\* is cleared and the results are read, no worker increments success_count
\* or failure_count any more: the totals read count every request that was
\* started, and workers of an earlier test never add to the counters after
\* a later test has reset them.
C36_TotalsCountEveryRequest ==
    load.pc # "off" =>
        /\ \A T \in LoadTests :
              load.totals[T] # NoTotals =>
                  /\ TotalOf(T) = load.started[T]
                  /\ \A x \in LoadWorkers :
                        x[1] = T => load.workers[x].pc \notin {"request", "count"}
        /\ (load.test = "mixed" /\ load.pc # "reset") =>
              success_count + failure_count <= load.started["mixed"]

-----------------------------------------------------------------------------
(* StressTester.connection_reuse_test                                      *)

\* num_requests (50 in run_all_stress_tests) is followed up to this bound
NumReuse == 4

ReuseOther == <<runVars, ledgerVars, sockVars, perfVars, stressVars, master, load, keep>>

InitReuse ==
    /\ catalog = <<>> /\ RunIdle /\ PerfIdle /\ StressIdle
    /\ MasterIdle /\ LoadIdle /\ KeepIdle
    /\ \E n \in 1..NumReuse :
          reuse = [pc |-> "connect", num_requests |-> n, i |-> 0,
                   success |-> 0, failures |-> 0, response |-> "empty", raised |-> FALSE]

\* lines 216-218: the handler of the outer try
ReuseExcept(r) ==
    [r EXCEPT !.pc = "done", !.raised = TRUE,
              !.failures = @ + (r.num_requests - r.success)]

\* lines 174-176: socket(), settimeout(5.0), connect()
ReuseConnect(ok) ==
    /\ reuse.pc = "connect"
    /\ reuse' = IF ok THEN [reuse EXCEPT !.pc = "send"] ELSE ReuseExcept(reuse)
    /\ UNCHANGED ReuseOther

\* lines 178-183: the next iteration sends its request; sendall() may raise
ReuseSend(ok) ==
    /\ reuse.pc = "send"
    /\ reuse.i < reuse.num_requests
    /\ reuse' = IF ok THEN [reuse EXCEPT !.pc = "recv", !.response = "empty"]
                ELSE ReuseExcept(reuse)
    /\ UNCHANGED ReuseOther

\* lines 184-205: the read loop ends with a response that holds "200", with
\* another response, with nothing (EOF or timeout before any byte), or
\* recv() raises; after a Content-Length larger than the body received and
\* an EOF, `while len(body) < length` never ends
ReuseRecv(k) ==
    /\ reuse.pc = "recv"
    /\ reuse' = CASE k = "raise" -> ReuseExcept(reuse)
                  [] k = "spin"  -> [reuse EXCEPT !.pc = "spinning"]
                  [] OTHER       -> [reuse EXCEPT !.pc = "count", !.response = k]
    /\ UNCHANGED ReuseOther

\* lines 207-212: the request is counted
ReuseCount ==
    /\ reuse.pc = "count"
    /\ reuse' = [reuse EXCEPT
          !.success  = IF reuse.response = "200" THEN @ + 1 ELSE @,
          !.failures = IF reuse.response = "200" THEN @ ELSE @ + 1,
          !.i = @ + 1, !.pc = "send"]
    /\ UNCHANGED ReuseOther

\* lines 214, 220-232: the loop is exhausted, close() and the report
ReuseClose ==
    /\ reuse.pc = "send"
    /\ reuse.i = reuse.num_requests
    /\ reuse' = [reuse EXCEPT !.pc = "done"]
    /\ UNCHANGED ReuseOther

NextReuse ==
    \/ \E ok \in BOOLEAN : ReuseConnect(ok)
    \/ \E ok \in BOOLEAN : ReuseSend(ok)
    \/ \E k \in {"200", "other", "empty", "raise", "spin"} : ReuseRecv(k)
    \/ ReuseCount
    \/ ReuseClose

SpecReuse == InitReuse /\ [][NextReuse]_vars

\* C37: connection_reuse_test ends with success + failures equal to
\* num_requests on every path, including when an exception interrupts the
\* loop after some requests were already counted as failures.
C37_CountsAddUp ==
    reuse.pc = "done" => reuse.success + reuse.failures = reuse.num_requests

-----------------------------------------------------------------------------
(* PerformanceTester.keep_alive_test: sequential requests on one socket.   *)
(* Every byte carries the number of the request it answers.                *)

\* num_requests (50 by default) is followed up to this bound
NumKeep == 3

KeepHead == <<"H", CR, LF, CR, LF>>
\* what the server sends in answer to one request, and what it does next:
\* wait for the next request, stay silent, or close the connection
KeepAnswers == {
    [bytes |-> KeepHead, then |-> "wait"],
    [bytes |-> KeepHead \o <<"b", "b">>, then |-> "wait"],
    [bytes |-> KeepHead \o <<"b", CR, LF, CR, LF>>, then |-> "wait"],
    [bytes |-> KeepHead \o <<"b">>, then |-> "close"],
    [bytes |-> <<>>, then |-> "wait"],
    [bytes |-> <<>>, then |-> "close"] }

Labelled(bytes, i) == [k \in 1..Len(bytes) |-> [b |-> bytes[k], req |-> i]]
BytesOf(toks) == [k \in 1..Len(toks) |-> toks[k].b]

KeepOther == <<runVars, ledgerVars, sockVars, perfVars, stressVars, master, load, reuse>>

InitKeep ==
    /\ catalog = <<>> /\ RunIdle /\ PerfIdle /\ StressIdle
    /\ MasterIdle /\ LoadIdle /\ ReuseIdle
    /\ \E n \in 1..NumKeep :
          keep = [pc |-> "connect", num_requests |-> n, i |-> 1,
                  successful |-> 0, failed |-> 0,
                  remaining |-> <<>>, closed |-> FALSE,
                  response |-> <<>>, counted |-> <<>>]

\* lines 190-196: socket(), settimeout(10.0), connect(); a failure is caught
\* by the outer handler (237-238), which only prints
KeepConnect(ok) ==
    /\ keep.pc = "connect"
    /\ keep' = [keep EXCEPT !.pc = IF ok THEN "send" ELSE "done"]
    /\ UNCHANGED KeepOther

\* lines 198-205: sendall() of request i; the server answers it, after
\* whatever it still has to deliver; on a connection the peer has closed
\* sendall() may raise (221-224)
KeepSend(a, ok) ==
    /\ keep.pc = "send"
    /\ keep.i <= keep.num_requests
    /\ ok \/ keep.closed
    /\ keep' = IF ~ok
               THEN [keep EXCEPT !.failed = @ + 1, !.pc = "close"]
               ELSE IF keep.closed
               THEN [keep EXCEPT !.response = <<>>, !.pc = "recv"]
               ELSE [keep EXCEPT !.response = <<>>, !.pc = "recv",
                                 !.remaining = @ \o Labelled(a.bytes, keep.i),
                                 !.closed = (a.then = "close")]
    /\ UNCHANGED KeepOther

\* lines 206-210: recv(4096) returns n bytes; the loop goes on until the
\* bytes read hold a blank line
KeepRecv(n) ==
    /\ keep.pc = "recv"
    /\ keep.remaining # <<>>
    /\ n = Len(keep.remaining) \/ (n < Len(keep.remaining) /\ n <= MaxSplit)
    /\ LET resp == keep.response \o SubSeq(keep.remaining, 1, n)
       IN keep' = [keep EXCEPT
              !.response = resp,
              !.remaining = SubSeq(keep.remaining, n + 1, Len(keep.remaining)),
              !.pc = IF Contains(BytesOf(resp), CRLFCRLF) THEN "count" ELSE "recv"]
    /\ UNCHANGED KeepOther

\* lines 207-209: recv() returns b"" on a closed connection
KeepRecvEOF ==
    /\ keep.pc = "recv"
    /\ keep.remaining = <<>> /\ keep.closed
    /\ keep' = [keep EXCEPT !.pc = "count"]
    /\ UNCHANGED KeepOther

\* lines 207, 221-224: nothing arrives for 10 seconds, recv() raises
\* socket.timeout, which the inner handler counts as the failure
KeepRecvTimeout ==
    /\ keep.pc = "recv"
    /\ keep.remaining = <<>> /\ ~keep.closed
    /\ keep' = [keep EXCEPT !.failed = @ + 1, !.pc = "close"]
    /\ UNCHANGED KeepOther

\* lines 212-219: times.append, then the request is counted
KeepCount ==
    /\ keep.pc = "count"
    /\ keep' = IF keep.response # <<>>
               THEN [keep EXCEPT !.successful = @ + 1,
                                 !.counted = Append(@, [req |-> keep.i, bytes |-> keep.response]),
                                 !.i = @ + 1, !.pc = "send"]
               ELSE [keep EXCEPT !.failed = @ + 1, !.pc = "close"]
    /\ UNCHANGED KeepOther

\* lines 226-235: the loop is over, sock.close() and the report
KeepClose ==
    /\ \/ keep.pc = "close"
       \/ keep.pc = "send" /\ keep.i > keep.num_requests
    /\ keep' = [keep EXCEPT !.pc = "done"]
    /\ UNCHANGED KeepOther

NextKeep ==
    \/ \E ok \in BOOLEAN : KeepConnect(ok)
    \/ \E a \in KeepAnswers, ok \in BOOLEAN : KeepSend(a, ok)
    \/ \E n \in 1..(NumKeep * 10) : KeepRecv(n)
    \/ KeepRecvEOF
    \/ KeepRecvTimeout
    \/ KeepCount
    \/ KeepClose

SpecKeep == InitKeep /\ [][NextKeep]_vars

\* C38: in keep_alive_test every response counted as successful for
\* request i consists only of bytes the server sent in answer to request i
\* (leftover bytes of an earlier response are never counted as the response
\* to a later request); the loop stops at the first failure, so failed is at
\* most 1 and successful + failed never exceeds num_requests.
C38_CountedBytesAnswerTheRequest ==
    keep.pc # "off" =>
        /\ \A k \in 1..Len(keep.counted) :
              \A j \in 1..Len(keep.counted[k].bytes) :
                  keep.counted[k].bytes[j].req = keep.counted[k].req
        /\ keep.failed <= 1
        /\ keep.successful + keep.failed <= keep.num_requests

====
